---- MODULE Spec2Model ----
(***************************************************************************)
(* A model of the winter unit of work, its repositories, the wrapper that  *)
(* proxies query results, the list-based session tracker and the backend   *)
(* sessions they all write through.                                        *)
(*                                                                         *)
(*   winter/unit_of_work.py     UnitOfWork (__aenter__, commit, rollback,  *)
(*                              __aexit__)                                 *)
(*   winter/repository/base.py  repository._getattribute wrapper,          *)
(*                              proxyfied, ProxyList                       *)
(*   winter/sessions.py         MongoSessionTracker (add, flush, clean)    *)
(*                                                                         *)
(* The backend registry (get_session, commit, rollback, close_session),    *)
(* the document-store driver and the record type's __setattr__ are not     *)
(* among the source files; they are modelled from sections 4.5, 4.7 and    *)
(* 4.9 of the specification.                                               *)
(***************************************************************************)
EXTENDS Integers, Sequences, FiniteSets, TLC

(***************************************************************************)
(* Bounds of the exploration.                                              *)
(***************************************************************************)
MaxObjs == 2        \* in-memory records handed out by repositories
MaxMut == 2         \* assignments / appends / removes performed by the client
MaxSessions == 2    \* sessions the registry hands out (scopes entered)
MaxFail == 1        \* backend calls that raise

(***************************************************************************)
(* Fixed universe.                                                         *)
(***************************************************************************)
UoWs == {"u1", "u2"}
Repos == {"users", "pets", "heroes"}
DocIds == {1, 2}
Vals == {0, 1}
HeroNames == {"h"}
Levels == {1, 2}    \* nesting levels below the root: user.address, user.address.<nested>
ScalarFields == {"name", "age"}
NestedFields == {"latitude", "longitude"}

\* self.session = None (unit_of_work.py:24); setattr(cls, session_key, None)
NoSession == 0
\* getattr(instance, __winter_track_target__, None)
NoTarget == 0
\* a record that never went through proxyfied carries no tracker
NoTracker == "none"

VARIABLES
    repositories,   \* UnitOfWork.repositories: uow -> owned repositories, in dict order
    session,        \* UnitOfWork.session
    pc,             \* where the client of each unit of work is: outside or inside `async with`
    repoSession,    \* repository.__winter_session_key__
    modified,       \* MongoSessionTracker._modified of each repository's tracker
    heap,           \* the records the client holds, by handle
    db,             \* committed documents of each collection
    sessions,       \* backend sessions: is it open, and its uncommitted writes
    owner,          \* history: the unit of work that acquired each session
    durable,        \* history: what the scope's commits so far should have made observable
    issued,         \* history: writes issued in the scope since its last successful commit
    flags,          \* history: commit() was called / failed in the current scope
    nMut,           \* history: mutations performed so far
    nFail,          \* history: backend calls that raised so far
    last,           \* history: the operation that produced this state
    job             \* an operation applied on its own: its input, then its outcome

\* the state of the units of work, their repositories, records and backend
uowVars == <<repositories, session, pc, repoSession, modified, heap, db, sessions,
             owner, durable, issued, flags, nMut, nFail, last>>

vars == <<uowVars, job>>

\* no operation is being applied on its own
NoJob == [op |-> "none"]

(***************************************************************************)
(* Repository declarations: @repository(entity, mongo_session_managed=...) *)
(***************************************************************************)
\* variant: every repository is declared change-tracking
every_repository_managed(r) == TRUE

\* test_unit_of_work_with_mongo.py: UserRepository (users) is declared with
\* mongo_session_managed=True, HeroRepository (heroes) without it; pets is a
\* second repository declared like users
mongo_session_managed(r) == r \in {"users", "pets"}

\* base.py:180-185: no entity of the document-store suite carries the SQL flag
using_sqlalchemy(r) == FALSE

RepositoryType(r) == IF using_sqlalchemy(r) THEN "SQL" ELSE "NO_SQL"

\* base.py:191-192: the class attribute is set only when mongo_session_managed
manage_objects(r) == mongo_session_managed(r)

\* the test both commit() and __aexit__ apply before they touch a tracker
HasTracker(r) == manage_objects(r) /\ RepositoryType(r) = "NO_SQL"

(***************************************************************************)
(* Documents, and the writes the document store receives.                  *)
(***************************************************************************)
DataFields == {"name", "age", "address", "heroes"}

NewDoc(i) ==
    [id |-> i, name |-> 0, age |-> 0,
     address |-> [l \in Levels |-> [latitude |-> 0, longitude |-> 0]],
     heroes |-> <<>>]

\* insert_one(values) and update_one({"id": id}, {"$set": values})
InsertOp(c, i, values) == [kind |-> "insert", coll |-> c, id |-> i, values |-> values]
SetOp(c, i, values) == [kind |-> "set", coll |-> c, id |-> i, values |-> values]

\* $set replaces the named fields of the matching document and keeps the others
SetFields(d, values) ==
    [f \in DOMAIN d |-> IF f \in DOMAIN values THEN values[f] ELSE d[f]]

Apply(store, op) ==
    IF op.kind = "insert"
    THEN [store EXCEPT ![op.coll] = @ \cup {SetFields(NewDoc(op.id), op.values)}]
    ELSE [store EXCEPT ![op.coll] =
              {IF d.id = op.id THEN SetFields(d, op.values) ELSE d : d \in @}]

RECURSIVE ApplyAll(_, _)
ApplyAll(store, ops) ==
    IF ops = <<>> THEN store ELSE ApplyAll(Apply(store, Head(ops)), Tail(ops))

(***************************************************************************)
(* The backend: committed documents and the sessions' uncommitted writes.  *)
(* A backend state is [db, ss].                                            *)
(***************************************************************************)
\* get_session(backend): a new session with a transaction started
get_session(ss) == Append(ss, [open |-> TRUE, pend |-> <<>>])

\* commit(session, backend): the session's writes become observable
RegistryCommit(B, s) ==
    [db |-> ApplyAll(B.db, B.ss[s].pend), ss |-> [B.ss EXCEPT ![s].pend = <<>>]]

\* rollback(session, backend): the session's uncommitted writes are discarded
RegistryRollback(B, s) == [B EXCEPT !.ss[s].pend = <<>>]

\* close_session(session, backend)
RegistryClose(B, s) == [B EXCEPT !.ss[s].open = FALSE]

\* a driver write: inside the session's transaction when a session is passed,
\* an isolated action otherwise
Execute(B, op, s) ==
    IF s = NoSession
    THEN [B EXCEPT !.db = Apply(@, op)]
    ELSE [B EXCEPT !.ss[s].pend = Append(@, op)]

\* what a read sees: the committed documents and the session's own writes
View(B, s) == IF s = NoSession THEN B.db ELSE ApplyAll(B.db, B.ss[s].pend)

Backend == [db |-> db, ss |-> sessions]

(***************************************************************************)
(* Records in memory.  A record carries its dataclass fields, the          *)
(* attributes proxyfied stamps on it and on its nested records, the        *)
(* tracking information of its list, and two history fields (scope, asg)   *)
(* that no operation reads.                                                *)
(***************************************************************************)
NoStamp == [target |-> NoTarget, in_session |-> FALSE, tracker |-> NoTracker,
            modified |-> FALSE]

\* a plain list, as the driver builds it
PlainList == [proxy |-> FALSE, tracker |-> NoTracker, instance |-> NoTarget,
              regs |-> FALSE]

\* the record a document is mapped to, before the wrapper sees it
Hydrate(r, doc, sc) ==
    [repo |-> r, id |-> doc.id, name |-> doc.name, age |-> doc.age,
     address |-> [l \in Levels |->
                    [latitude |-> doc.address[l].latitude,
                     longitude |-> doc.address[l].longitude,
                     stamp |-> NoStamp]],
     heroes |-> doc.heroes, list |-> PlainList, stamp |-> NoStamp,
     scope |-> sc, asg |-> {}]

\* dataclasses.asdict(instance): the dataclass fields only, nested records included
asdict(o) ==
    [id |-> o.id, name |-> o.name, age |-> o.age,
     address |-> [l \in Levels |-> [latitude |-> o.address[l].latitude,
                                   longitude |-> o.address[l].longitude]],
     heroes |-> o.heroes]

\* values = asdict(instance); values.pop("id", None)
Values(o) == [f \in DataFields |-> asdict(o)[f]]

\* ProxyList.set_tracking_info(tracker, instance)
set_tracking_info(tracker, instance) ==
    [proxy |-> TRUE, tracker |-> tracker, instance |-> instance, regs |-> FALSE]

\* the four attributes proxyfied sets on every record it wraps
Stamp(tracker, origin) ==
    [target |-> origin, in_session |-> TRUE, tracker |-> tracker, modified |-> FALSE]

\* proxyfied(result, tracker, origin) of one record: its nested records are
\* proxied with the same origin, its list becomes a ProxyList bound to origin
proxyfied(result, tracker, origin) ==
    [result EXCEPT
        !.address = [l \in Levels |-> [@[l] EXCEPT !.stamp = Stamp(tracker, origin)]],
        !.list = set_tracking_info(tracker, origin),
        !.stamp = Stamp(tracker, origin)]

\* wrapper / async_wrapper of repository._getattribute: a single record is
\* its own origin, and only a managed document-store repository proxies
wrapper(r, result, h) ==
    IF ~using_sqlalchemy(r) /\ mongo_session_managed(r)
    THEN proxyfied(result, r, h)
    ELSE result

(***************************************************************************)
(* MongoSessionTracker                                                     *)
(***************************************************************************)
\* `target not in self._modified`: list membership is by identity or by the
\* dataclass's field-wise equality
Contains(m, hp, t) ==
    \E k \in DOMAIN m :
        \/ m[k] = t
        \/ hp[m[k]].repo = hp[t].repo /\ asdict(hp[m[k]]) = asdict(hp[t])

\* MongoSessionTracker.add(instance); st is the stamp of the instance
add(m, hp, st) ==
    IF st.target # NoTarget /\ ~Contains(m, hp, st.target)
    THEN Append(m, st.target)
    ELSE m

\* the update_one calls of MongoSessionTracker.flush, in list order
RECURSIVE FlushOps(_, _, _)
FlushOps(r, m, hp) ==
    IF m = <<>> THEN <<>>
    ELSE (IF hp[Head(m)].id \in DocIds
          THEN <<SetOp(r, hp[Head(m)].id, Values(hp[Head(m)]))>>
          ELSE <<>>) \o FlushOps(r, Tail(m), hp)

\* MongoSessionTracker.flush(session) as the calls it makes: the updates,
\* then self._modified = list()
flush(r, m, hp) ==
    [k \in 1..Len(FlushOps(r, m, hp)) |->
        [call |-> "update_one", tracker |-> r, op |-> FlushOps(r, m, hp)[k]]]
    \o <<[call |-> "clear", tracker |-> r, op |-> SetOp(r, 0, <<>>)]>>

\* MongoSessionTracker.clean()
clean(m) == <<>>

(***************************************************************************)
(* UnitOfWork                                                              *)
(***************************************************************************)
Range(q) == {q[k] : k \in DOMAIN q}

Owned(u) == Range(repositories[u])

\* what the history variable `last` records of an operation
Last(op, u, ok, exc, raised, s, ev) ==
    [op |-> op, u |-> u, ok |-> ok, exc |-> exc, raised |-> raised,
     s |-> s, ev |-> ev]

NoCall == SetOp("none", 0, <<>>)

\* await commit(self.session, self.backend)
CommitCall == [call |-> "commit", tracker |-> NoTracker, op |-> NoCall]

\* the for loop of UnitOfWork.commit: every owned repository that has a
\* tracker flushes it, in the order of self.repositories
RECURSIVE FlushAll(_, _, _)
FlushAll(repos, mod, hp) ==
    IF repos = <<>> THEN <<>>
    ELSE (IF HasTracker(Head(repos))
          THEN flush(Head(repos), mod[Head(repos)], hp)
          ELSE <<>>) \o FlushAll(Tail(repos), mod, hp)

\* variant: the session commit is issued before the trackers are flushed
commit_then_flush(u) ==
    IF session[u] # NoSession
    THEN <<CommitCall>> \o FlushAll(repositories[u], modified, heap)
    ELSE <<>>

\* UnitOfWork.commit as the calls it makes, in order; none without a session
commit_calls(u) ==
    IF session[u] # NoSession
    THEN FlushAll(repositories[u], modified, heap) \o <<CommitCall>>
    ELSE <<>>

\* variant: the updates of a flush are issued outside the session
flush_without_session(s) == NoSession

\* tracker.flush(self.session): the session every update_one is given
flush_session(s) == s

\* the effect of one call made with session s on st = [B, mod, ev]
Call(st, c, s) ==
    CASE c.call = "update_one" ->
            [st EXCEPT !.B = Execute(@, c.op, flush_session(s)), !.ev = Append(@, c)]
      [] c.call = "clear" -> [st EXCEPT !.mod[c.tracker] = <<>>]
      [] c.call = "commit" ->
            [st EXCEPT !.B = RegistryCommit(@, s), !.ev = Append(@, c)]

\* the calls run in order; the failAt-th raises and ends the run (0: none raises)
RECURSIVE Run(_, _, _, _)
Run(st, calls, failAt, s) ==
    IF calls = <<>> \/ failAt = 1 THEN st
    ELSE Run(Call(st, Head(calls), s), Tail(calls),
             IF failAt = 0 THEN 0 ELSE failAt - 1, s)

\* self._modified = list() cannot raise; a call to the backend can
CanRaise(calls, failAt) ==
    IF failAt = 0 THEN TRUE ELSE calls[failAt].call # "clear"

\* the writes among the calls that were made
RECURSIVE OpsOf(_)
OpsOf(ev) ==
    IF ev = <<>> THEN <<>>
    ELSE (IF Head(ev).call = "update_one" THEN <<Head(ev).op>> ELSE <<>>)
         \o OpsOf(Tail(ev))

\* the kinds of the calls that were made
RECURSIVE KindsOf(_)
KindsOf(ev) ==
    IF ev = <<>> THEN <<>> ELSE <<Head(ev).call>> \o KindsOf(Tail(ev))

\* variant: leaving the scope commits the session instead of rolling it back
rollback_commits(u, B) ==
    IF session[u] # NoSession THEN RegistryCommit(B, session[u]) ELSE B

\* UnitOfWork.rollback
rollback(u, B) ==
    IF session[u] # NoSession THEN RegistryRollback(B, session[u]) ELSE B

\* variant: the session is injected into every repository, owned or not
aenter_binds_all(u, s) ==
    [session |-> [session EXCEPT ![u] = s],
     repoSession |-> [r \in Repos |-> s]]

\* __aenter__ after get_session returned s: the session is kept and injected
\* into every owned repository
aenter_effect(u, s) ==
    [session |-> [session EXCEPT ![u] = s],
     repoSession |-> [r \in Repos |-> IF r \in Owned(u) THEN s ELSE repoSession[r]]]

\* __aexit__: rollback, close_session, then the session is forgotten, every
\* owned repository loses it and every tracker is cleaned.  A call that
\* raises ends the method there.
aexit_effect(u, outcome) ==
    LET B1 == IF outcome = "rollback_raises" THEN Backend ELSE rollback(u, Backend)
        B2 == IF outcome = "ok" /\ session[u] # NoSession
              THEN RegistryClose(B1, session[u]) ELSE B1
    IN  IF outcome = "ok"
        THEN [B |-> B2,
              session |-> [session EXCEPT ![u] = NoSession],
              repoSession |-> [r \in Repos |->
                                IF r \in Owned(u) THEN NoSession ELSE repoSession[r]],
              modified |-> [r \in Repos |->
                                IF r \in Owned(u) /\ HasTracker(r)
                                THEN clean(modified[r]) ELSE modified[r]]]
        ELSE [B |-> B2, session |-> session, repoSession |-> repoSession,
              modified |-> modified]

\* variant: __aexit__ returns a true value, which suppresses the exception
aexit_suppresses == TRUE

\* __aexit__ returns None: an exception of the body is not suppressed
aexit_returns == FALSE

NoFlags == [commitCalled |-> FALSE, commitFailed |-> FALSE]

aenter(u) ==
    /\ pc[u] = "idle"
    /\ repositories[u] # <<>>
    /\ Len(sessions) < MaxSessions
    /\ LET s == Len(sessions) + 1
           e == aenter_effect(u, s)
       IN  /\ sessions' = get_session(sessions)
           /\ owner' = Append(owner, u)
           /\ session' = e.session
           /\ repoSession' = e.repoSession
           /\ last' = Last("enter", u, TRUE, FALSE, "none", s, <<>>)
    /\ pc' = [pc EXCEPT ![u] = "active"]
    /\ durable' = [durable EXCEPT ![u] = db]
    /\ issued' = [issued EXCEPT ![u] = <<>>]
    /\ flags' = [flags EXCEPT ![u] = NoFlags]
    /\ UNCHANGED <<job, repositories, modified, heap, db, nMut, nFail>>

\* leaving the scope: exc says whether the body raised, outcome whether
\* rollback or close_session raised
aexit(u, exc, outcome) ==
    /\ pc[u] = "active"
    /\ outcome # "ok" => nFail < MaxFail
    /\ LET e == aexit_effect(u, outcome)
           raised == IF outcome # "ok" THEN "exit"
                     ELSE IF exc /\ ~aexit_returns THEN "body" ELSE "none"
       IN  /\ db' = e.B.db
           /\ sessions' = e.B.ss
           /\ session' = e.session
           /\ repoSession' = e.repoSession
           /\ modified' = e.modified
           /\ last' = Last("exit", u, outcome = "ok", exc, raised, session[u], <<>>)
    /\ nFail' = IF outcome = "ok" THEN nFail ELSE nFail + 1
    /\ pc' = [pc EXCEPT ![u] = "idle"]
    /\ UNCHANGED <<job, repositories, heap, owner, durable, issued, flags, nMut>>

\* commit(): the failAt-th call it makes raises (0: none does)
commit(u, failAt) ==
    /\ repositories[u] # <<>>
    /\ failAt \in 0..Len(commit_calls(u))
    /\ CanRaise(commit_calls(u), failAt)
    /\ failAt # 0 => nFail < MaxFail
    /\ LET s == session[u]
           st == Run([B |-> Backend, mod |-> modified, ev |-> <<>>],
                     commit_calls(u), failAt, s)
           ok == failAt = 0
           wrote == issued[u] \o OpsOf(st.ev)
       IN  /\ db' = st.B.db
           /\ sessions' = st.B.ss
           /\ modified' = st.mod
           /\ issued' = [issued EXCEPT ![u] =
                            IF ok /\ s # NoSession THEN <<>> ELSE wrote]
           /\ durable' = [durable EXCEPT ![u] =
                            IF ok /\ s # NoSession THEN ApplyAll(@, wrote) ELSE @]
           /\ flags' = [flags EXCEPT ![u] =
                            [commitCalled |-> TRUE, commitFailed |-> ~ok]]
           /\ last' = Last("commit", u, ok, FALSE, "none", s, KindsOf(st.ev))
    /\ nFail' = IF failAt = 0 THEN nFail ELSE nFail + 1
    /\ UNCHANGED <<job, repositories, session, pc, repoSession, heap, owner, nMut>>

(***************************************************************************)
(* UnitOfWork construction.  A repository is given by the backend          *)
(* identifier its class carries, "none" when it carries none.              *)
(***************************************************************************)
MaxRepos == 4       \* repositories handed to one constructor

BackendNames == {"none", "default", "mongo"}

\* variant: a repository without a backend identifier keeps no name
backend_attribute(b) == b

\* getattr(repository, __winter_backend_identifier_key__, "default")
backend_identifier(b) == IF b = "none" THEN "default" ELSE b

\* UnitOfWork.__init__(**kwargs): self.backend is the first repository's
\* backend; every repository's backend is compared with it
UnitOfWork_init(bs) ==
    LET backends == [k \in DOMAIN bs |-> backend_identifier(bs[k])]
    IN  IF bs = <<>>
        THEN [ok |-> TRUE, error |-> "none", backend |-> "unset", repositories |-> bs]
        ELSE IF \A k \in DOMAIN backends : backends[k] = backend_identifier(bs[1])
             THEN [ok |-> TRUE, error |-> "none",
                   backend |-> backend_identifier(bs[1]), repositories |-> bs]
             ELSE [ok |-> FALSE, error |-> "UnitOfWorkError",
                   backend |-> "unset", repositories |-> <<>>]

RECURSIVE SeqsUpTo(_, _)
SeqsUpTo(S, n) ==
    IF n = 0 THEN {<<>>}
    ELSE SeqsUpTo(S, n - 1) \cup
         {Append(q, x) : q \in {p \in SeqsUpTo(S, n - 1) : Len(p) = n - 1}, x \in S}

\* UnitOfWork(**repositories) calls waiting to be made
ConstructJobs ==
    {[op |-> "construct", stage |-> "input", arg |-> bs] : bs \in SeqsUpTo(BackendNames, MaxRepos)}

\* uow = UnitOfWork(**repositories)
construct ==
    /\ job.op = "construct"
    /\ job.stage = "input"
    /\ job' = [op |-> "construct", stage |-> "done", arg |-> job.arg,
               out |-> UnitOfWork_init(job.arg)]
    /\ UNCHANGED uowVars

(***************************************************************************)
(* Repository operations.  A query method runs with the session the        *)
(* repository holds and hands its result to the wrapper.                   *)
(***************************************************************************)
\* history: the scope a record is obtained in
Scope(u) == IF pc[u] = "active" THEN session[u] ELSE NoSession

\* a driver call with a closed session raises
Usable(s) == IF s = NoSession THEN TRUE ELSE sessions[s].open

\* repo.get_by_id(id=i), through unit of work u
get_by_id(u, r, i) ==
    /\ r \in Owned(u)
    /\ Usable(repoSession[r])
    /\ LET s == repoSession[r]
           found == {d \in View(Backend, s)[r] : d.id = i}
       IN  /\ IF found = {}
              THEN heap' = heap
              ELSE /\ Len(heap) < MaxObjs
                   /\ heap' = Append(heap,
                          wrapper(r, Hydrate(r, CHOOSE d \in found : TRUE, Scope(u)),
                                  Len(heap) + 1))
           /\ last' = Last("get", u, TRUE, FALSE, "none", s, <<>>)
    /\ UNCHANGED <<job, repositories, session, pc, repoSession, modified, db, sessions,
                   owner, durable, issued, flags, nMut, nFail>>

\* repo.create(entity=Entity(id=i)), through unit of work u
create(u, r, i) ==
    /\ r \in Owned(u)
    /\ Usable(repoSession[r])
    /\ Len(heap) < MaxObjs
    /\ LET s == repoSession[r]
           entity == Hydrate(r, NewDoc(i), Scope(u))
           op == InsertOp(r, i, Values(entity))
           B == Execute(Backend, op, s)
       IN  /\ \A d \in View(Backend, s)[r] : d.id # i
           /\ db' = B.db
           /\ sessions' = B.ss
           /\ heap' = Append(heap, wrapper(r, entity, Len(heap) + 1))
           /\ issued' = [issued EXCEPT ![u] =
                            IF pc[u] = "active" /\ s # NoSession THEN Append(@, op) ELSE @]
           /\ durable' = [w \in UoWs |-> IF s = NoSession THEN Apply(durable[w], op)
                                         ELSE durable[w]]
           /\ last' = Last("create", u, TRUE, FALSE, "none", s, <<>>)
    /\ UNCHANGED <<job, repositories, session, pc, repoSession, modified, owner, flags,
                   nMut, nFail>>

(***************************************************************************)
(* Mutations of the records the client holds.                              *)
(***************************************************************************)
\* a field of the record (l = 0) or of its nested record at level l
Path(l, f) == [l |-> l, f |-> f]

ListPath == Path(0, "heroes")

StampAt(o, l) == IF l = 0 THEN o.stamp ELSE o.address[l].stamp

ValueAt(o, l, f) == IF l = 0 THEN o[f] ELSE o.address[l][f]

\* the record type's __setattr__: a record in a session registers its
\* tracking root with its tracker
setattr_tracking(mod, hp, h, l) ==
    IF StampAt(hp[h], l).in_session
    THEN [mod EXCEPT ![StampAt(hp[h], l).tracker] = add(@, hp, StampAt(hp[h], l))]
    ELSE mod

\* ... marks itself modified and stores the value
Assign(o, l, f, v) ==
    LET o1 == IF l = 0
              THEN [o EXCEPT ![f] = v,
                             !.stamp.modified = IF o.stamp.in_session THEN TRUE ELSE @]
              ELSE [o EXCEPT !.address[l][f] = v,
                             !.address[l].stamp.modified =
                                 IF o.address[l].stamp.in_session THEN TRUE ELSE @]
    IN  [o1 EXCEPT !.asg = @ \cup {Path(l, f)}]

\* record.f = v (l = 0), record.address.f = v (l = 1), one level deeper (l = 2)
setattr(h, l, f, v) ==
    /\ nMut < MaxMut
    /\ h \in DOMAIN heap
    /\ IF l = 0 THEN f \in ScalarFields ELSE l \in Levels /\ f \in NestedFields
    /\ ValueAt(heap[h], l, f) # v
    /\ modified' = setattr_tracking(modified, heap, h, l)
    /\ heap' = [heap EXCEPT ![h] = Assign(@, l, f, v)]
    /\ nMut' = nMut + 1
    /\ last' = Last("setattr", "none", TRUE, FALSE, "none", NoSession, <<>>)
    /\ UNCHANGED <<job, repositories, session, pc, repoSession, db, sessions, owner,
                   durable, issued, flags, nFail>>

\* ProxyList.track of the list of record h; a plain list has no track
track(mod, hp, h) ==
    LET lst == hp[h].list
    IN  IF lst.proxy
        THEN IF ~hp[lst.instance].stamp.modified /\ ~lst.regs
             THEN [mod |-> [mod EXCEPT ![lst.tracker] =
                                add(@, hp, hp[lst.instance].stamp)],
                   hp |-> [hp EXCEPT ![h].list.regs = TRUE,
                                     ![lst.instance].stamp.modified = TRUE]]
             ELSE [mod |-> mod, hp |-> hp]
        ELSE [mod |-> mod, hp |-> hp]

\* list.remove(x) removes the first occurrence
RECURSIVE RemoveFirst(_, _)
RemoveFirst(q, x) ==
    IF q = <<>> THEN <<>>
    ELSE IF Head(q) = x THEN Tail(q) ELSE <<Head(q)>> \o RemoveFirst(Tail(q), x)

\* record.heroes.append(x)
append(h, x) ==
    /\ nMut < MaxMut
    /\ h \in DOMAIN heap
    /\ LET t == track(modified, heap, h)
       IN  /\ modified' = t.mod
           /\ heap' = [t.hp EXCEPT ![h].heroes = Append(@, x),
                                   ![h].asg = @ \cup {ListPath}]
    /\ nMut' = nMut + 1
    /\ last' = Last("append", "none", TRUE, FALSE, "none", NoSession, <<>>)
    /\ UNCHANGED <<job, repositories, session, pc, repoSession, db, sessions, owner,
                   durable, issued, flags, nFail>>

\* record.heroes.remove(x): track, then ValueError when x is not in the list
remove(h, x) ==
    /\ nMut < MaxMut
    /\ h \in DOMAIN heap
    /\ LET t == track(modified, heap, h)
           present == x \in Range(heap[h].heroes)
       IN  /\ modified' = t.mod
           /\ heap' = [t.hp EXCEPT ![h].heroes = RemoveFirst(@, x),
                                   ![h].asg = @ \cup {ListPath}]
           /\ last' = Last("remove", "none", present, FALSE,
                           IF present THEN "none" ELSE "body", NoSession, <<>>)
    /\ nMut' = nMut + 1
    /\ UNCHANGED <<job, repositories, session, pc, repoSession, db, sessions, owner,
                   durable, issued, flags, nFail>>

(***************************************************************************)
(* Initial states and the specifications.                                  *)
(***************************************************************************)
\* every collection starts with the document of id 1; nothing is held
InitUoW ==
    /\ session = [u \in UoWs |-> NoSession]
    /\ pc = [u \in UoWs |-> "idle"]
    /\ repoSession = [r \in Repos |-> NoSession]
    /\ modified = [r \in Repos |-> <<>>]
    /\ heap = <<>>
    /\ db = [r \in Repos |-> {NewDoc(1)}]
    /\ sessions = <<>>
    /\ owner = <<>>
    /\ durable = [u \in UoWs |-> [r \in Repos |-> {NewDoc(1)}]]
    /\ issued = [u \in UoWs |-> <<>>]
    /\ flags = [u \in UoWs |-> NoFlags]
    /\ nMut = 0
    /\ nFail = 0
    /\ last = Last("init", "none", TRUE, FALSE, "none", NoSession, <<>>)

InitCommon == InitUoW /\ job = NoJob

\* Spec: one unit of work over two change-tracking repositories, with
\* backend calls that may raise; the client works inside the scope and
\* assigns a scalar field of the records it holds.
Init ==
    /\ repositories = [u \in UoWs |-> IF u = "u1" THEN <<"users", "pets">> ELSE <<>>]
    /\ InitCommon

Next ==
    \/ \E u \in UoWs : aenter(u)
    \/ \E u \in UoWs, exc \in BOOLEAN,
          outcome \in {"ok", "rollback_raises", "close_raises"} : aexit(u, exc, outcome)
    \/ \E u \in UoWs, failAt \in 0..(MaxObjs + 3) : commit(u, failAt)
    \/ \E u \in UoWs, r \in Repos, i \in DocIds : pc[u] = "active" /\ get_by_id(u, r, i)
    \/ \E u \in UoWs, r \in Repos : pc[u] = "active" /\ create(u, r, 2)
    \/ \E h \in 1..MaxObjs, v \in Vals : setattr(h, 0, "name", v)

Spec == Init /\ [][Next]_vars

\* SpecTrack: one unit of work over a change-tracking repository and one
\* declared without change tracking; every kind of mutation, no failure.
InitTrack ==
    /\ repositories = [u \in UoWs |-> IF u = "u1" THEN <<"users", "heroes">> ELSE <<>>]
    /\ InitCommon

NextTrack ==
    \/ \E u \in UoWs : aenter(u)
    \/ \E u \in UoWs : aexit(u, FALSE, "ok")
    \/ \E u \in UoWs : pc[u] = "active" /\ commit(u, 0)
    \/ \E u \in UoWs, r \in Repos : pc[u] = "active" /\ get_by_id(u, r, 1)
    \/ \E u \in UoWs, r \in Repos : pc[u] = "active" /\ create(u, r, 2)
    \/ \E h \in 1..MaxObjs, l \in {0} \cup Levels, f \in ScalarFields \cup NestedFields,
          v \in Vals : setattr(h, l, f, v)
    \/ \E h \in 1..MaxObjs, x \in HeroNames : append(h, x)
    \/ \E h \in 1..MaxObjs, x \in HeroNames : remove(h, x)

SpecTrack == InitTrack /\ [][NextTrack]_vars

\* SpecTwo: two units of work on one backend, either over one shared
\* repository instance or over one repository each.
Shared == [u \in UoWs |-> <<"users">>]

Separate == [u \in UoWs |-> IF u = "u1" THEN <<"users">> ELSE <<"pets">>]

InitTwo ==
    /\ repositories \in {Shared, Separate}
    /\ InitCommon

NextTwo ==
    \/ \E u \in UoWs : aenter(u)
    \/ \E u \in UoWs : aexit(u, FALSE, "ok")
    \/ \E u \in UoWs : commit(u, 0)
    \/ \E u \in UoWs, r \in Repos, i \in DocIds : get_by_id(u, r, i)
    \/ \E u \in UoWs, r \in Repos : create(u, r, 2)

SpecTwo == InitTwo /\ [][NextTwo]_vars

(***************************************************************************)
(* SpecNested: one unit of work whose scope is entered again while it is   *)
(* active, as in a nested `async with`; the inner exit leaves the body of  *)
(* the outer scope running, and the outer exit follows.  No backend call   *)
(* raises.                                                                 *)
(***************************************************************************)
\* __aenter__ on a unit of work that is active: the session it holds is
\* overwritten with the one get_session returns
aenter_nested(u) ==
    /\ pc[u] = "active"
    /\ Len(sessions) < MaxSessions
    /\ LET s == Len(sessions) + 1
           e == aenter_effect(u, s)
       IN  /\ sessions' = get_session(sessions)
           /\ owner' = Append(owner, u)
           /\ session' = e.session
           /\ repoSession' = e.repoSession
           /\ last' = Last("enter", u, TRUE, FALSE, "none", s, <<>>)
    /\ pc' = [pc EXCEPT ![u] = "nested"]
    /\ UNCHANGED <<job, repositories, modified, heap, db, nMut, nFail, durable, issued,
                   flags>>

\* __aexit__ of a scope at position from, which leaves the unit of work at to
aexit_from(u, from, to) ==
    /\ pc[u] = from
    /\ LET e == aexit_effect(u, "ok")
       IN  /\ db' = e.B.db
           /\ sessions' = e.B.ss
           /\ session' = e.session
           /\ repoSession' = e.repoSession
           /\ modified' = e.modified
           /\ last' = Last("exit", u, TRUE, FALSE, "none", session[u], <<>>)
    /\ pc' = [pc EXCEPT ![u] = to]
    /\ UNCHANGED <<job, repositories, heap, owner, durable, issued, flags, nMut, nFail>>

\* the exit of the inner scope
aexit_nested(u) == aexit_from(u, "nested", "outer")

\* the exit of the outer scope, after the inner one forgot the session:
\* close_session(self.session, self.backend) with self.session None
aexit_outer(u) == aexit_from(u, "outer", "idle")

InitNested ==
    /\ repositories = [u \in UoWs |-> IF u = "u1" THEN <<"users", "pets">> ELSE <<>>]
    /\ InitCommon

NextNested ==
    \/ \E u \in UoWs : aenter(u)
    \/ \E u \in UoWs : aenter_nested(u)
    \/ \E u \in UoWs : aexit(u, FALSE, "ok")
    \/ \E u \in UoWs : aexit_nested(u)
    \/ \E u \in UoWs : aexit_outer(u)
    \/ \E u \in UoWs : pc[u] = "active" /\ commit(u, 0)
    \/ \E u \in UoWs, r \in Repos, i \in DocIds : pc[u] = "active" /\ get_by_id(u, r, i)
    \/ \E u \in UoWs, r \in Repos : pc[u] = "active" /\ create(u, r, 2)

SpecNested == InitNested /\ [][NextNested]_vars

(***************************************************************************)
(* Properties of the unit of work (under Spec).                            *)
(***************************************************************************)
CommitCalled(u) == flags[u].commitCalled

\* the update_one writes among a sequence of writes
HasUpdate(ops) == \E k \in DOMAIN ops : ops[k].kind = "set"

C7_ExitReturnsToIdle ==
    last.op = "exit" =>
        /\ session[last.u] = NoSession
        /\ ~sessions[last.s].open
        /\ sessions[last.s].pend = <<>>
        /\ \A r \in Owned(last.u) :
              /\ repoSession[r] = NoSession
              /\ HasTracker(r) => modified[r] = <<>>

\* C8: commit() with a session flushes every tracker of an owned
\* change-tracking repository and only then commits the session: the session
\* commit is the last call it makes and every tracker is left flushed;
\* commit() without a session makes no call and changes nothing.  (The unit
\* of work of Spec owns the trackers of users and pets: one update per dirty
\* record of either precedes the session commit.)
C8_FlushBeforeCommit ==
    [][last'.op = "commit" =>
          IF session[last'.u] = NoSession
          THEN /\ last'.ev = <<>>
               /\ UNCHANGED <<db, sessions, modified>>
          ELSE /\ \A k \in DOMAIN last'.ev :
                      last'.ev[k] = "commit" => k = Len(last'.ev)
               /\ last'.ok =>
                      /\ last'.ev # <<>>
                      /\ last'.ev[Len(last'.ev)] = "commit"
                      /\ Len(last'.ev) = 1 + Len(FlushOps("users", modified["users"], heap))
                                           + Len(FlushOps("pets", modified["pets"], heap))
                      /\ \A k \in 1..(Len(last'.ev) - 1) : last'.ev[k] = "update_one"
                      /\ \A r \in Owned(last'.u) : HasTracker(r) => modified'[r] = <<>>
    ]_vars

\* a commit that flushed two trackers before it committed the session
C8_Witness ==
    /\ last.op = "commit" /\ last.ok
    /\ Len(last.ev) >= 3

Doc(store, r, i) == CHOOSE d \in store[r] : d.id = i

\* the step is a successful commit() of the scope record o was obtained in,
\* and o is a record of a change-tracking repository
CommittedFor(o) ==
    /\ last'.op = "commit" /\ last'.ok
    /\ last'.s # NoSession
    /\ o.scope = last'.s
    /\ HasTracker(o.repo)

ScalarPaths == {Path(0, f) : f \in ScalarFields}

NestedPaths == {Path(l, f) : l \in Levels, f \in NestedFields}

\* C3: when the scope a tracked record was obtained in commits, the stored
\* document carries the record's value in every scalar field assigned on it,
\* and every field not assigned keeps the value storage had before the commit.
C3_ScalarTracking ==
    [][\A h \in DOMAIN heap :
          (/\ CommittedFor(heap[h])
           /\ heap[h].asg # {}
           /\ heap[h].asg \subseteq ScalarPaths) =>
              \A f \in DataFields :
                  Doc(db', heap[h].repo, heap[h].id)[f] =
                      IF Path(0, f) \in heap[h].asg
                      THEN heap[h][f]
                      ELSE Doc(View(Backend, last'.s), heap[h].repo, heap[h].id)[f]
    ]_vars

\* C4: when the scope a tracked root was fetched in commits, the stored
\* document carries the value of every assigned field of its nested records,
\* at either depth, and their sibling fields keep the value storage had.
C4_NestedTracking ==
    [][\A h \in DOMAIN heap :
          (/\ CommittedFor(heap[h])
           /\ heap[h].asg \cap NestedPaths # {}) =>
              \A l \in Levels, f \in NestedFields :
                  Doc(db', heap[h].repo, heap[h].id).address[l][f] =
                      IF Path(l, f) \in heap[h].asg
                      THEN heap[h].address[l][f]
                      ELSE Doc(View(Backend, last'.s), heap[h].repo,
                               heap[h].id).address[l][f]
    ]_vars

\* C5: when the scope a tracked root was fetched in commits after appends
\* and removes on its list, the stored list equals the list in memory.
C5_ListTracking ==
    [][\A h \in DOMAIN heap :
          (/\ CommittedFor(heap[h])
           /\ ListPath \in heap[h].asg) =>
              Doc(db', heap[h].repo, heap[h].id).heroes = heap[h].heroes
    ]_vars

\* C6: the repository declared without change tracking never registers a
\* record with a tracker, no update is ever issued on its collection, and
\* every stored document of it is as it was inserted.
C6_UntrackedNeverWritten ==
    /\ modified["heroes"] = <<>>
    /\ \A d \in db["heroes"] : d = NewDoc(d.id)
    /\ \A k \in DOMAIN sessions : \A j \in DOMAIN sessions[k].pend :
          sessions[k].pend[j].coll = "heroes" => sessions[k].pend[j].kind = "insert"

\* a commit of the scope in which a record of the untracked repository was
\* obtained and then mutated
C6_Witness ==
    /\ last.op = "commit" /\ last.ok /\ last.s # NoSession
    /\ \E h \in DOMAIN heap :
          /\ heap[h].repo = "heroes"
          /\ heap[h].scope = last.s
          /\ heap[h].asg # {}
          /\ asdict(heap[h]) # NewDoc(heap[h].id)

(***************************************************************************)
(* Properties of two units of work (under SpecTwo).                        *)
(***************************************************************************)
\* an operation issued through a unit of work never runs with a session
\* another unit of work acquired, and every repository of an active unit of
\* work holds that unit of work's session
SessionsExclusive ==
    /\ (last.op \in {"get", "create"} /\ last.s # NoSession) => owner[last.s] = last.u
    /\ \A u \in UoWs : pc[u] = "active" =>
          \A r \in Owned(u) : repoSession[r] = session[u]

\* C10 as stated: sessions are exclusive for every interleaving of two units
\* of work, also when both own the same repository instance.
C10_SessionsExclusive_AnyOwnership == SessionsExclusive

\* C10, for units of work that own no repository instance in common:
\* sessions are exclusive for every interleaving of their steps.
C10_SessionsExclusive ==
    (Owned("u1") \cap Owned("u2") = {}) => SessionsExclusive

\* both units of work active over separate repositories, one just operated
C10_Witness ==
    /\ Owned("u1") \cap Owned("u2") = {}
    /\ \A u \in UoWs : pc[u] = "active"
    /\ last.op \in {"get", "create"} /\ last.s # NoSession

(***************************************************************************)
(* Query tokenizer (winter/query/parsing.py).  A method name is a sequence *)
(* of characters; a token is [token_type, lexema].                         *)
(***************************************************************************)
LowerCase == <<"a", "b", "c", "d", "e", "f", "g", "h", "i", "j", "k", "l", "m", "n", "o", "p", "q", "r", "s", "t", "u", "v", "w", "x", "y", "z">>
UpperCase == <<"A", "B", "C", "D", "E", "F", "G", "H", "I", "J", "K", "L", "M", "N", "O", "P", "Q", "R", "S", "T", "U", "V", "W", "X", "Y", "Z">>

IsLetter(c) == c \in Range(LowerCase) \cup Range(UpperCase)

\* str.lower() of one character, as re.IGNORECASE compares
lower(c) ==
    IF c \in Range(UpperCase)
    THEN LowerCase[CHOOSE k \in DOMAIN UpperCase : UpperCase[k] = c]
    ELSE c

\* the alternatives of each keyword pattern of TOKEN_MATCHER, in the order written
Keywords ==
    [separator |-> <<<<"_">>>>,
     by |-> <<<<"b", "y">>>>,
     query_target |-> <<<<"f", "i", "n", "d">>, <<"g", "e", "t">>, <<"d", "e", "l", "e", "t", "e">>, <<"u", "p", "d", "a", "t", "e">>, <<"r", "e", "m", "o", "v", "e", "O", "n", "e">>, <<"c", "r", "e", "a", "t", "e">>>>,
     operator |-> <<<<"E", "q", "u", "a", "l", "T", "o">>, <<"N", "o", "t", "E", "q", "u", "a", "l", "T", "o">>, <<"L", "o", "w", "e", "r", "T", "h", "a", "n">>, <<"N", "o", "t", "L", "o", "w", "e", "r", "T", "h", "a", "n">>, <<"I", "n">>, <<"N", "o", "t", "I", "n">>, <<"G", "r", "e", "a", "t", "e", "r", "T", "h", "a", "n">>, <<"N", "o", "t", "G", "r", "e", "a", "t", "e", "r", "T", "h", "a", "n">>>>,
     logical_operator |-> <<<<"a", "n", "d">>, <<"o", "r">>>>,
     modifier |-> <<<<"s", "k", "i", "p">>, <<"l", "i", "m", "i", "t">>>>,
     end_token |-> <<<<"$">>>>]

\* TOKEN_MATCHER.items(): the token types in declaration order
TokenTypes == <<"separator", "by", "query_target", "operator", "logical_operator",
                "modifier", "fieldName", "end_token">>

\* the patterns compiled with re.IGNORECASE
IgnoreCase == {"by", "query_target", "operator", "logical_operator", "modifier"}

\* the name starts with the keyword
StartsWith(name, kw, ignorecase) ==
    /\ Len(name) >= Len(kw)
    /\ \A k \in DOMAIN kw :
          IF ignorecase THEN lower(name[k]) = lower(kw[k]) ELSE name[k] = kw[k]

\* an alternation matches with its first alternative that does: the length
\* matched, 0 for no match
RECURSIVE AltMatch(_, _, _)
AltMatch(alts, name, ignorecase) ==
    IF alts = <<>> THEN 0
    ELSE IF StartsWith(name, Head(alts), ignorecase) THEN Len(Head(alts))
    ELSE AltMatch(Tail(alts), name, ignorecase)

\* [a-zA-Z]+ : the longest run of letters the name starts with
RECURSIVE LetterRun(_)
LetterRun(name) ==
    IF name = <<>> THEN 0
    ELSE IF IsLetter(Head(name)) THEN 1 + LetterRun(Tail(name)) ELSE 0

\* pattern.match(scan_target) of a token type: the end of the span, 0 for None
match(token_type, scan_target) ==
    IF token_type = "fieldName" THEN LetterRun(scan_target)
    ELSE AltMatch(Keywords[token_type], scan_target, token_type \in IgnoreCase)

\* the for loop over TOKEN_MATCHER: the first token type that matches, 0 for none
RECURSIVE FirstMatch(_, _)
FirstMatch(k, scan_target) ==
    IF k > Len(TokenTypes) THEN 0
    ELSE IF match(TokenTypes[k], scan_target) > 0 THEN k
    ELSE FirstMatch(k + 1, scan_target)

Token(token_type, lexema) == [token_type |-> token_type, lexema |-> lexema]

EndToken == Token("end_token", <<"$">>)

\* QueryTokenizer.tokenize, from the state of its while loop
RECURSIVE scan(_, _)
scan(scan_target, result) ==
    IF scan_target = <<>>
    THEN [ok |-> TRUE, error |-> "none", tokens |-> Append(result, EndToken), rest |-> <<>>]
    ELSE LET k == FirstMatch(1, scan_target)
         IN  IF k = 0
             THEN [ok |-> FALSE, error |-> "UnknownTokenError", tokens |-> <<>>,
                   rest |-> scan_target]
             ELSE LET end == match(TokenTypes[k], scan_target)
                      rest == SubSeq(scan_target, end + 1, Len(scan_target))
                  IN  IF TokenTypes[k] # "separator"
                      THEN scan(rest, Append(result,
                                   Token(TokenTypes[k], SubSeq(scan_target, 1, end))))
                      ELSE scan(rest, result)

\* QueryTokenizer.tokenize(query)
tokenize(query) == scan(query, <<>>)

(***************************************************************************)
(* Query parser (winter/query/parsing.py).  self.tokens is threaded        *)
(* through the operators: each returns what it returns or raises, and the  *)
(* tokens left.                                                            *)
(***************************************************************************)
None == [kind |-> "None"]

\* the root nodes and the filter nodes of winter/query/nodes.py
RootNode(kind, filters) == [kind |-> kind, filters |-> filters]
BinaryNode(kind, left, right) == [kind |-> kind, left |-> left, right |-> right]
FilterNode(kind, field) == [kind |-> kind, field |-> field]

ParsingError(tokens) ==
    [ok |-> FALSE, error |-> "ParsingError", node |-> None, tokens |-> tokens]

Returned(node, tokens) ==
    [ok |-> TRUE, error |-> "none", node |-> node, tokens |-> tokens]

\* lexema.lower()
Lowered(lexema) == [k \in DOMAIN lexema |-> lower(lexema[k])]

\* QueryParser.consume: the token popped, in the node field
consume(tokens, token_type) ==
    IF tokens = <<>> THEN ParsingError(tokens)
    ELSE IF Head(tokens).token_type # token_type THEN ParsingError(Tail(tokens))
    ELSE Returned(Head(tokens), Tail(tokens))

\* QueryParser.lookahead
lookahead(tokens) == IF tokens = <<>> THEN "None" ELSE Head(tokens).token_type

\* the cases of the match statement of parse_criteria
OperatorCases ==
    <<[lexema |-> <<"e", "q", "u", "a", "l", "t", "o">>, node |-> "EqualToNode"],
     [lexema |-> <<"n", "o", "t", "e", "q", "u", "a", "l", "t", "o">>, node |-> "NotEqualNode"],
     [lexema |-> <<"l", "o", "w", "e", "r", "t", "h", "a", "n">>, node |-> "LowerThanNode"],
     [lexema |-> <<"n", "o", "t", "l", "o", "w", "e", "r", "t", "h", "a", "n">>, node |-> "NotLowerThanNode"],
     [lexema |-> <<"i", "n">>, node |-> "InNode"],
     [lexema |-> <<"n", "o", "t", "i", "n">>, node |-> "NotInNode"],
     [lexema |-> <<"g", "r", "e", "a", "t", "e", "r", "t", "h", "a", "n">>, node |-> "GreaterThanNode"],
     [lexema |-> <<"n", "o", "t", "g", "r", "e", "a", "t", "e", "r", "t", "h", "a", "n">>, node |-> "NotGreaterThanNode"]>>

\* QueryParser.parse_criteria
parse_criteria(tokens) ==
    LET field_name_token == consume(tokens, "fieldName")
    IN  IF ~field_name_token.ok THEN field_name_token
        ELSE IF lookahead(field_name_token.tokens) = "operator"
        THEN LET operator_token == consume(field_name_token.tokens, "operator")
                 hits == {k \in DOMAIN OperatorCases :
                             OperatorCases[k].lexema = Lowered(operator_token.node.lexema)}
             IN  IF hits = {} THEN ParsingError(operator_token.tokens)
                 ELSE Returned(FilterNode(OperatorCases[CHOOSE k \in hits : TRUE].node,
                                          field_name_token.node.lexema),
                               operator_token.tokens)
        ELSE Returned(FilterNode("EqualToNode", field_name_token.node.lexema),
                      field_name_token.tokens)

\* QueryParser.parse_filters_list
RECURSIVE parse_filters_list(_)
parse_filters_list(tokens) ==
    LET left == parse_criteria(tokens)
    IN  IF ~left.ok THEN left
        ELSE IF ~(lookahead(left.tokens) \in {"None", "end_token"})
        THEN LET join_operator == consume(left.tokens, "logical_operator")
             IN  IF ~join_operator.ok THEN join_operator
                 ELSE LET right == parse_filters_list(join_operator.tokens)
                      IN  IF ~right.ok THEN right
                          ELSE IF Lowered(join_operator.node.lexema) = <<"a", "n", "d">>
                          THEN Returned(BinaryNode("AndNode", left.node, right.node),
                                        right.tokens)
                          ELSE IF Lowered(join_operator.node.lexema) = <<"o", "r">>
                          THEN Returned(BinaryNode("OrNode", left.node, right.node),
                                        right.tokens)
                          ELSE ParsingError(right.tokens)
        ELSE Returned(BinaryNode("AndNode", left.node, None), left.tokens)

\* the cases of the match statement of parse_query_target
TargetCases ==
    <<[lexema |-> <<"f", "i", "n", "d">>, node |-> "Find"],
      [lexema |-> <<"g", "e", "t">>, node |-> "Get"],
      [lexema |-> <<"d", "e", "l", "e", "t", "e">>, node |-> "Delete"]>>

\* QueryParser.parse_query_target
parse_query_target(tokens) ==
    LET token == consume(tokens, "query_target")
    IN  IF ~token.ok THEN token
        ELSE IF Lowered(token.node.lexema) = <<"c", "r", "e", "a", "t", "e">>
        THEN Returned([kind |-> "Create"], token.tokens)
        ELSE IF Lowered(token.node.lexema) = <<"u", "p", "d", "a", "t", "e">>
        THEN Returned([kind |-> "Update"], token.tokens)
        ELSE LET by == IF lookahead(token.tokens) = "end_token"
                       THEN Returned(None, token.tokens)
                       ELSE consume(token.tokens, "by")
                 query_body == IF lookahead(token.tokens) = "end_token" THEN by
                               ELSE IF ~by.ok THEN by
                               ELSE parse_filters_list(by.tokens)
                 hits == {k \in DOMAIN TargetCases :
                             TargetCases[k].lexema = Lowered(token.node.lexema)}
             IN  IF ~query_body.ok THEN query_body
                 ELSE IF hits = {} THEN ParsingError(query_body.tokens)
                 ELSE Returned(RootNode(TargetCases[CHOOSE k \in hits : TRUE].node,
                                        query_body.node),
                               query_body.tokens)

\* QueryParser.parse(query): an UnknownTokenError of the tokenizer passes through
parse(query) ==
    LET tokens == tokenize(query)
    IN  IF ~tokens.ok
        THEN [ok |-> FALSE, error |-> tokens.error, node |-> None, tokens |-> <<>>]
        ELSE LET result == parse_query_target(tokens.tokens)
             IN  IF ~result.ok THEN result
                 ELSE LET end == consume(result.tokens, "end_token")
                      IN  IF ~end.ok THEN end
                          ELSE Returned(result.node, end.tokens)

(***************************************************************************)
(* Relational driver (winter/drivers/pg.py).  A field name is a sequence   *)
(* of name parts with "." between them; keyword arguments and entities are *)
(* functions from keys to values; a driver call returns what it returns or *)
(* raises, with the statements it built and those it executed.             *)
(***************************************************************************)
Int1 == [kind |-> "int", value |-> 1]

\* dict.get(key, None) and getattr(obj, key, None)
get(mapping, key) == IF key \in DOMAIN mapping THEN mapping[key] ELSE None

\* str.split("."): the name parts between the dots
RECURSIVE split(_)
split(field_name) ==
    IF field_name = <<>> THEN <<>>
    ELSE IF Head(field_name) = "." THEN split(Tail(field_name))
    ELSE <<Head(field_name)>> \o split(Tail(field_name))

\* "__".join(field_path)
RECURSIVE join(_)
join(field_path) ==
    IF Len(field_path) <= 1 THEN field_path
    ELSE <<Head(field_path), "__">> \o join(Tail(field_path))

\* get_field_name: a list for a dotted name, the name itself otherwise
get_field_name(field_name) ==
    IF "." \in Range(field_name)
    THEN [list |-> TRUE, path |-> split(field_name)]
    ELSE [list |-> FALSE, path |-> field_name]

Raised(error, message) ==
    [ok |-> FALSE, error |-> error, message |-> message, value |-> None]

Value(value) == [ok |-> TRUE, error |-> "none", message |-> <<>>, value |-> value]

\* variant: a missing argument compares the column with None
get_value_or_none(field_path, kwargs) ==
    Value(get(kwargs, IF field_path.list THEN join(field_path.path) ELSE field_path.path))

\* get_value_from_args
get_value_from_args(field_path, kwargs) ==
    LET field == IF field_path.list THEN join(field_path.path) ELSE field_path.path
        value == get(kwargs, field)
    IN  IF value = None
        THEN Raised("ExecutionError", <<field, "was not suplied as argument">>)
        ELSE Value(value)

\* the relationships of the bound schema that _resolve_joins finds
Relationships == {"address"}

\* the while loop of _operate over a dotted path: field_path is never None, so
\* every part goes to _resolve_joins, whose next() finds no relationship for a
\* part that is a column, and a path of relationships only falls out of the loop
RECURSIVE resolve_path(_)
resolve_path(field_path) ==
    IF field_path = <<>> THEN Raised("ExecutionError", <<"WTF This should not end here">>)
    ELSE IF Head(field_path) \notin Relationships THEN Raised("StopIteration", <<>>)
    ELSE resolve_path(Tail(field_path))

\* _operate(node, schema, op, **kwargs)
operate(node, op, kwargs) ==
    LET field_path == get_field_name(node.field)
        value == get_value_from_args(field_path, kwargs)
    IN  IF ~value.ok THEN value
        ELSE IF field_path.list THEN resolve_path(field_path.path)
        ELSE Value([where |-> [op |-> op, column |-> field_path.path, value |-> value.value],
                    joins |-> <<>>])

\* the operator each registered comparison node compiles with
Operators ==
    [EqualToNode |-> "eq", NotEqualNode |-> "ne", GreaterThanNode |-> "gt",
     LowerThanNode |-> "lt"]

\* SqlAlchemyDriver.visit of a filter tree: AndNode, OrNode and the comparison
\* nodes registered; any other node falls to the unregistered visit
RECURSIVE visit_filters(_, _)
visit_filters(node, kwargs) ==
    IF node.kind \in {"AndNode", "OrNode"}
    THEN LET left == visit_filters(node.left, kwargs)
         IN  IF ~left.ok THEN left
             ELSE IF node.right # None
             THEN LET right == visit_filters(node.right, kwargs)
                  IN  IF ~right.ok THEN right
                      ELSE Value([where |-> [op |-> node.kind,
                                             left |-> left.value.where,
                                             right |-> right.value.where],
                                  joins |-> left.value.joins \o right.value.joins])
             ELSE left
    ELSE IF node.kind \in DOMAIN Operators THEN operate(node, Operators[node.kind], kwargs)
    ELSE Raised("NotImplementedError", <<>>)

\* what a driver call leaves: its result or error, the statements built and the
\* statements executed, each with the session that executed it
Outcome(result, built, executed) ==
    [ok |-> result.ok, error |-> result.error, message |-> result.message,
     value |-> result.value, built |-> built, executed |-> executed]

\* self._session.execute(stmt), or a private session begun and committed
execute(stmt, driver_session) ==
    <<[stmt |-> stmt, session |-> IF driver_session # NoSession THEN "supplied" ELSE "private"]>>

\* SqlAlchemyDriver.visit for Find
visit_Find(node, kwargs, driver_session) ==
    LET state == IF node.filters # None THEN visit_filters(node.filters, kwargs)
                 ELSE Value(None)
        stmt == [kind |-> "select", state |-> state.value]
    IN  IF ~state.ok THEN Outcome(state, 1, <<>>)
        ELSE Outcome(Value("rows"), 1, execute(stmt, driver_session))

\* variant: an update that does not look at the id
visit_Update_unchecked(entity, driver_session) ==
    LET _id == get(entity.fields, "id")
        stmt == [kind |-> "update", filter_by |-> _id,
                 values |-> [k \in DOMAIN entity.fields \ {"id"} |-> entity.fields[k]]]
    IN  Outcome(Value(None), 1, execute(stmt, driver_session))

\* SqlAlchemyDriver.visit for Update
visit_Update(entity, driver_session) ==
    LET _id == get(entity.fields, "id")
        stmt == [kind |-> "update", filter_by |-> _id,
                 values |-> [k \in DOMAIN entity.fields \ {"id"} |-> entity.fields[k]]]
    IN  IF _id = None
        THEN Outcome(Raised("ExecutionError", <<"Entity must have id field">>), 0, <<>>)
        ELSE Outcome(Value(None), 1, execute(stmt, driver_session))

\* SqlAlchemyDriver.visit for Create
visit_Create(entity, driver_session) ==
    LET stmt == [kind |-> "insert", values |-> entity.fields]
    IN  Outcome(Value(None), 1, execute(stmt, driver_session))

(***************************************************************************)
(* Calls made on the relational driver.                                    *)
(***************************************************************************)
\* the most criteria of a filter tree handed to the driver
MaxCriteria == 2

FilterFields == {<<"name">>, <<"address", ".", "city">>}

\* InNode has no visit registered
FilterKinds == {"EqualToNode", "GreaterThanNode", "InNode"}

RECURSIVE FilterTrees(_)
FilterTrees(n) ==
    LET crits == {FilterNode(kind, f) : kind \in FilterKinds, f \in FilterFields}
    IN  IF n = 1 THEN {BinaryNode("AndNode", c, None) : c \in crits}
        ELSE {BinaryNode(kind, c, right) :
                 kind \in {"AndNode", "OrNode"}, c \in crits, right \in FilterTrees(n - 1)}

ArgKeys == {<<"name">>, <<"address", "__", "city">>, <<"address", ".", "city">>}

\* the keyword arguments of a call: some keys, each with a value or None
Kwargs == UNION {[keys -> {None, Int1}] : keys \in SUBSET ArgKeys}

\* an entity, a dict or a BaseModel, with the fields it explicitly carries
Entities ==
    UNION {{[kind |-> kind, fields |-> fields] :
               kind \in {"dict", "BaseModel"}, fields \in [keys -> {None, Int1}]} :
           keys \in SUBSET {"id", "name"}}

DriverSessions == {NoSession, 1}

FindJobs ==
    {[op |-> "find", stage |-> "input", node |-> RootNode("Find", filters),
      kwargs |-> kwargs, driver_session |-> s] :
        filters \in {None} \cup UNION {FilterTrees(n) : n \in 1..MaxCriteria},
        kwargs \in Kwargs, s \in DriverSessions}

EntityJobs ==
    {[op |-> op, stage |-> "input", entity |-> e, driver_session |-> s] :
        op \in {"update", "create"}, e \in Entities, s \in DriverSessions}

\* driver.run_async(Find(filters), schema, **kwargs)
driver_find ==
    /\ job.op = "find" /\ job.stage = "input"
    /\ job' = [job EXCEPT !.stage = "done"] @@
              [out |-> visit_Find(job.node, job.kwargs, job.driver_session)]
    /\ UNCHANGED uowVars

\* driver.run_async(Update(), schema, entity=entity)
driver_update ==
    /\ job.op = "update" /\ job.stage = "input"
    /\ job' = [job EXCEPT !.stage = "done"] @@
              [out |-> visit_Update(job.entity, job.driver_session)]
    /\ UNCHANGED uowVars

\* driver.run_async(Create(), schema, entity=entity)
driver_create ==
    /\ job.op = "create" /\ job.stage = "input"
    /\ job' = [job EXCEPT !.stage = "done"] @@
              [out |-> visit_Create(job.entity, job.driver_session)]
    /\ UNCHANGED uowVars

(***************************************************************************)
(* Method names handed to the tokenizer and the parser: names built from   *)
(* the grammar, kept with the way they were built, and names put together  *)
(* from arbitrary words.                                                   *)
(***************************************************************************)
\* the most criteria of a built name
MaxFilters == 3

\* the most words of an arbitrary name
MaxWords == 3

Targets == {<<"f", "i", "n", "d">>, <<"g", "e", "t">>, <<"d", "e", "l", "e", "t", "e">>}

FieldNames == {<<"n", "a", "m", "e">>, <<"o", "r", "d", "e", "r">>}

\* <<>> stands for a criterion written without an operator
OperatorChoices == {<<>>, <<"G", "r", "e", "a", "t", "e", "r", "T", "h", "a", "n">>, <<"I", "n">>}

Combinators == {<<"a", "n", "d">>, <<"o", "r">>}

\* what stands between a field name and its operator
Glues == {<<"_">>, <<>>}

Built ==
    UNION {{[kind |-> "built", target |-> t, fields |-> f, operators |-> o,
             combinators |-> c, glue |-> g] :
               t \in Targets, f \in [1..n -> FieldNames], o \in [1..n -> OperatorChoices],
               c \in [1..(n - 1) -> Combinators], g \in Glues} : n \in 0..MaxFilters}

\* the k-th criterion as written in the name
Criterion(b, k) ==
    b.fields[k] \o (IF b.operators[k] = <<>> THEN <<>> ELSE b.glue \o b.operators[k])

RECURSIVE FiltersFrom(_, _)
FiltersFrom(b, k) ==
    Criterion(b, k) \o (IF k = Len(b.fields) THEN <<>>
                        ELSE <<"_">> \o b.combinators[k] \o <<"_">> \o FiltersFrom(b, k + 1))

\* find_by_<criterion>_<and|or>_<criterion>...
BuiltName(b) ==
    b.target \o (IF b.fields = <<>> THEN <<>> ELSE <<"_", "b", "y", "_">> \o FiltersFrom(b, 1))

FreeWords ==
    {<<"f", "i", "n", "d">>, <<"c", "r", "e", "a", "t", "e">>, <<"r", "e", "m", "o", "v", "e", "O", "n", "e">>, <<"b", "y">>, <<"n", "a", "m", "e">>, <<"o", "r", "d", "e", "r">>,
     <<"G", "r", "e", "a", "t", "e", "r", "T", "h", "a", "n">>, <<"I", "n">>, <<"a", "n", "d">>, <<"l", "i", "m", "i", "t">>, <<"$">>, <<"1">>}

Free ==
    {[kind |-> "free", words |-> w, glue |-> g] :
        w \in SeqsUpTo(FreeWords, MaxWords) \ {<<>>}, g \in Glues}

RECURSIVE Joined(_, _)
Joined(words, glue) ==
    IF Len(words) = 1 THEN words[1]
    ELSE words[1] \o glue \o Joined(Tail(words), glue)

NameOf(b) == IF b.kind = "built" THEN BuiltName(b) ELSE Joined(b.words, b.glue)

TokenizeJobs ==
    {[op |-> "tokenize", stage |-> "input", arg |-> NameOf(b), built |-> b] :
        b \in Built \cup Free}

ParseJobs ==
    {[op |-> "parse", stage |-> "input", arg |-> NameOf(b), built |-> b] :
        b \in Built \cup Free}

\* QueryTokenizer.tokenize(name)
tokenize_name ==
    /\ job.op = "tokenize" /\ job.stage = "input"
    /\ job' = [op |-> "tokenize", stage |-> "done", arg |-> job.arg, built |-> job.built,
               out |-> tokenize(job.arg)]
    /\ UNCHANGED uowVars

\* QueryParser().parse(name)
parse_name ==
    /\ job.op = "parse" /\ job.stage = "input"
    /\ job' = [op |-> "parse", stage |-> "done", arg |-> job.arg, built |-> job.built,
               out |-> parse(job.arg)]
    /\ UNCHANGED uowVars

(***************************************************************************)
(* Method lookup on a repository (winter/repository/base.py).  A method is *)
(* what the class declares: its name, whether it is marked raw, whether it *)
(* is a coroutine function, and whether its signature takes a session.  A  *)
(* call passes keyword arguments, given by their names.                    *)
(***************************************************************************)
Methods ==
    [name : {"get_by_id", "__init__"}, raw : BOOLEAN, coroutine : BOOLEAN,
     takes_session : BOOLEAN]

\* a repository class: whether BACKENDS holds its backend name, and the
\* mongo_session_managed and SQL flags of its declaration
RepoDecls == [registered : BOOLEAN, managed : BOOLEAN, sql : BOOLEAN]

\* is_processable
is_processable(method) == method.name # "__init__" /\ ~method.raw

\* _parse_function_name: the backend's compiled operation for a processable
\* method, the method itself otherwise
parse_function_name(decl, fobject) ==
    IF ~decl.registered THEN [ok |-> FALSE, error |-> "RepositoryError"]
    ELSE IF is_processable(fobject)
    THEN [ok |-> TRUE, error |-> "none",
          attr |-> [kind |-> "partial", name |-> fobject.name,
                    coroutine |-> fobject.coroutine]]
    ELSE [ok |-> TRUE, error |-> "none",
          attr |-> [kind |-> "method", name |-> fobject.name,
                    coroutine |-> fobject.coroutine]]

\* _getattribute: what the lookup of a method returns, the attribute itself or
\* wrapper / async_wrapper around new_attr.  A bound method is neither a partial
\* nor inspect.isfunction, so only a coroutine one is wrapped
getattribute(decl, method) ==
    LET attr == [kind |-> "method", name |-> method.name, coroutine |-> method.coroutine]
        new_attr == parse_function_name(decl, method)
    IN  IF ~new_attr.ok THEN [ok |-> TRUE, error |-> "none", wrapped |-> FALSE, attr |-> attr]
        ELSE IF new_attr.attr.kind = "partial" \/ new_attr.attr.coroutine
        THEN [ok |-> TRUE, error |-> "none", wrapped |-> TRUE, attr |-> new_attr.attr]
        ELSE [ok |-> TRUE, error |-> "none", wrapped |-> FALSE, attr |-> attr]

\* the call of what the lookup returned with the caller's keyword arguments:
\* the written body or the compiled query runs with the arguments it receives,
\* wrapper and async_wrapper add session=session and proxy a managed
\* document-store repository's result
call_attribute(decl, method, found, kwargs) ==
    LET passed == IF found.wrapped THEN kwargs \cup {"session"} ELSE kwargs
        body == found.attr.kind = "method"
    IN  IF ~found.ok
        THEN [ok |-> FALSE, error |-> found.error, body |-> FALSE, compiled |-> FALSE,
              received |-> {}, proxied |-> FALSE]
        ELSE IF found.wrapped /\ "session" \in kwargs
        THEN [ok |-> FALSE, error |-> "TypeError", body |-> FALSE, compiled |-> FALSE,
              received |-> {}, proxied |-> FALSE]
        ELSE IF body /\ "session" \in passed /\ ~method.takes_session
        THEN [ok |-> FALSE, error |-> "TypeError", body |-> FALSE, compiled |-> FALSE,
              received |-> {}, proxied |-> FALSE]
        ELSE [ok |-> TRUE, error |-> "none", body |-> body, compiled |-> ~body,
              received |-> passed,
              proxied |-> found.wrapped /\ ~decl.sql /\ decl.managed]

MethodJobs ==
    {[op |-> "call", stage |-> "input", decl |-> d, method |-> m, kwargs |-> k] :
        d \in RepoDecls, m \in Methods, k \in SUBSET {"id", "session"}}

\* repo.<method>(**kwargs): the lookup through _getattribute, then the call
call_method ==
    /\ job.op = "call" /\ job.stage = "input"
    /\ job' = [job EXCEPT !.stage = "done"] @@
              [out |-> call_attribute(job.decl, job.method,
                                      getattribute(job.decl, job.method), job.kwargs)]
    /\ UNCHANGED uowVars

(***************************************************************************)
(* Tracker flush on its own: MongoSessionTracker.flush (winter/sessions.py)*)
(* over its list of dirty records, and Tracker.flush (wintry/sessions.py)  *)
(* over its set of dirty keys and its weak identity map.                   *)
(***************************************************************************)
\* the most dirty records of a flush
MaxDirty == 2

\* the most flushes of one tracker
MaxFlushes == 2

\* getattr(instance, "id", None) is None; ids() is empty
NoId == 0

\* a tracked record: its identity value, if any, and its data
Records == [id : {NoId} \cup DocIds, name : Vals]

\* the sequences of distinct elements of S, of length n
DistinctSeqs(S, n) ==
    {q \in [1..n -> S] : \A i, j \in 1..n : i # j => q[i] # q[j]}

\* collection.update_one(filter, {"$set": values}, session=session)
update_one(filter, values, s) == [filter |-> filter, set |-> values, session |-> s]

\* Model.ids(): the identity fields of the record with their values
ids(record) == IF record.id = NoId THEN <<>> ELSE [id |-> record.id]

\* MongoSessionTracker.flush(session): one update for every record of
\* self._modified whose id is not None, then self._modified = list()
RECURSIVE mongo_flush(_, _)
mongo_flush(m, s) ==
    IF m = <<>> THEN [ok |-> TRUE, error |-> "none", calls |-> <<>>, modified |-> <<>>]
    ELSE LET rest == mongo_flush(Tail(m), s)
         IN  IF Head(m).id # NoId
             THEN [rest EXCEPT !.calls = <<update_one([id |-> Head(m).id],
                                                      [name |-> Head(m).name], s)>> \o @]
             ELSE rest

\* Tracker.flush(session) with the keys of self._modified visited in the given
\* order: a key whose record is gone from the weak identity map fails the
\* assert, a record without ids raises TrackerError, any other gets one
\* update; self._modified is cleared only when the loop ends
RECURSIVE tracker_loop(_, _, _)
tracker_loop(keys, identity_map, s) ==
    IF keys = <<>> THEN [ok |-> TRUE, error |-> "none", calls |-> <<>>]
    ELSE IF Head(keys) \notin DOMAIN identity_map
    THEN [ok |-> FALSE, error |-> "AssertionError", calls |-> <<>>]
    ELSE LET modified_instance == identity_map[Head(keys)]
             pks == ids(modified_instance)
         IN  IF DOMAIN pks = {}
             THEN [ok |-> FALSE, error |-> "TrackerError", calls |-> <<>>]
             ELSE LET rest == tracker_loop(Tail(keys), identity_map, s)
                  IN  [rest EXCEPT !.calls =
                          <<update_one(pks, [id |-> modified_instance.id,
                                             name |-> modified_instance.name], s)>> \o @]

tracker_flush(keys, identity_map, s) ==
    LET loop == tracker_loop(keys, identity_map, s)
    IN  [ok |-> loop.ok, error |-> loop.error, calls |-> loop.calls,
         modified_keys |-> IF loop.ok THEN {} ELSE Range(keys)]

\* get_instance_key(instance) without the type, which is the same throughout
get_instance_key(record) == record.id

MongoFlushJobs ==
    {[op |-> "flush", tracker |-> "MongoSessionTracker", stage |-> "input",
      modified |-> m, clean |-> c, with_session |-> s] :
        m \in UNION {DistinctSeqs(Records, n) : n \in 0..MaxDirty},
        c \in {{}} \cup {{r} : r \in Records},
        s \in 1..MaxSessions}

\* the identity maps: some keys, each with a live record of that key
IdentityMaps ==
    UNION {{im \in [keys -> Records] : \A k \in keys : get_instance_key(im[k]) = k} :
           keys \in SUBSET ({NoId} \cup DocIds)}

TrackerFlushJobs ==
    {[op |-> "flush", tracker |-> "Tracker", stage |-> "input",
      modified_keys |-> m, identity_map |-> im, with_session |-> s] :
        m \in {k \in SUBSET ({NoId} \cup DocIds) : Cardinality(k) <= MaxDirty},
        im \in IdentityMaps,
        s \in 1..MaxSessions}

\* await tracker.flush(session) on a MongoSessionTracker
flush_mongo_tracker ==
    /\ job.op = "flush" /\ job.tracker = "MongoSessionTracker" /\ job.stage = "input"
    /\ job' = [job EXCEPT !.stage = "done"] @@
              [out |-> mongo_flush(job.modified, job.with_session)]
    /\ UNCHANGED uowVars

\* await tracker.flush(session) on a Tracker: the set is visited in some order
flush_tracker ==
    /\ job.op = "flush" /\ job.tracker = "Tracker" /\ job.stage = "input"
    /\ \E keys \in DistinctSeqs(job.modified_keys, Cardinality(job.modified_keys)) :
          job' = [job EXCEPT !.stage = "done"] @@
                 [out |-> tracker_flush(keys, job.identity_map, job.with_session)]
    /\ UNCHANGED uowVars

(***************************************************************************)
(* The proxy layer over any query result (winter/repository/base.py): an   *)
(* absent result, one record, or a list of records.  An object is known by *)
(* its reference: the position of a record in the result.                  *)
(***************************************************************************)
Absent == [kind |-> "None"]

Single(ref, record) == [kind |-> "record", ref |-> ref, record |-> record]

Listed(items) == [kind |-> "list", items |-> items]

\* variant: the elements of a list result share the first element as root
proxyfied_sharing_root(result, tracker, origin) ==
    IF result.kind = "None" THEN result
    ELSE IF result.kind # "list"
    THEN Single(result.ref, proxyfied(result.record, tracker, origin.ref))
    ELSE Listed([k \in DOMAIN result.items |->
                   Single(result.items[k].ref,
                          proxyfied(result.items[k].record, tracker, 1))])

\* proxyfied(result, tracker, origin) for any result: None comes back as it
\* is, a record is proxied under origin, and the elements of a list are
\* proxied each under itself when origin is a list, under origin otherwise
proxyfied_result(result, tracker, origin) ==
    IF result.kind = "None" THEN result
    ELSE IF result.kind # "list"
    THEN Single(result.ref, proxyfied(result.record, tracker, origin.ref))
    ELSE IF origin.kind = "list"
    THEN Listed([k \in DOMAIN result.items |->
                   Single(result.items[k].ref,
                          proxyfied(result.items[k].record, tracker, result.items[k].ref))])
    ELSE Listed([k \in DOMAIN result.items |->
                   Single(result.items[k].ref,
                          proxyfied(result.items[k].record, tracker, origin.ref))])

\* wrapper / async_wrapper: proxyfied(result, tracker, result) for a managed
\* document-store repository, the result itself otherwise
wrapper_result(r, result) ==
    IF ~using_sqlalchemy(r) /\ mongo_session_managed(r)
    THEN proxyfied_result(result, r, result)
    ELSE result

\* the results a driver hands to the wrapper
DriverResults(r) ==
    {Absent}
    \cup {Single(1, Hydrate(r, NewDoc(i), NoSession)) : i \in DocIds}
    \cup UNION {{Listed([k \in 1..n |-> Single(k, Hydrate(r, NewDoc(docs[k]), NoSession))]) :
                    docs \in [1..n -> DocIds]} : n \in 0..MaxObjs}

ProxyJobs ==
    {[op |-> "proxy", stage |-> "input", repo |-> r, result |-> result] :
        r \in Repos, result \in UNION {DriverResults(rr) : rr \in Repos}}

\* the wrapper receives the result of the compiled query
proxy_result ==
    /\ job.op = "proxy" /\ job.stage = "input"
    /\ job' = [job EXCEPT !.stage = "done"] @@ [out |-> wrapper_result(job.repo, job.result)]
    /\ UNCHANGED uowVars

(***************************************************************************)
(* Delete on the relational driver.                                        *)
(***************************************************************************)
\* the depth of nested calls at which the interpreter raises RecursionError
RecursionLimit == 3

\* SqlAlchemyDriver.visit for Delete: with filters it visits the Delete node
\* itself, not node.filters
RECURSIVE visit_Delete(_, _, _, _)
visit_Delete(node, kwargs, driver_session, depth) ==
    LET state == IF node.filters = None THEN Outcome(Value(None), 0, <<>>)
                 ELSE IF depth = RecursionLimit
                 THEN Outcome(Raised("RecursionError",
                                     <<"maximum recursion depth exceeded">>), 0, <<>>)
                 ELSE visit_Delete(node, kwargs, driver_session, depth + 1)
        stmt == [kind |-> "delete", state |-> state.value]
    IN  IF ~state.ok THEN state
        ELSE Outcome(Value(None), 1, state.executed \o execute(stmt, driver_session))

DeleteJobs ==
    {[op |-> "delete", stage |-> "input", node |-> RootNode("Delete", filters),
      kwargs |-> kwargs, driver_session |-> s] :
        filters \in {None} \cup FilterTrees(1), kwargs \in Kwargs, s \in DriverSessions}

\* driver.run_async(Delete(filters), schema, **kwargs)
driver_delete ==
    /\ job.op = "delete" /\ job.stage = "input"
    /\ job' = [job EXCEPT !.stage = "done"] @@
              [out |-> visit_Delete(job.node, job.kwargs, job.driver_session, 1)]
    /\ UNCHANGED uowVars

(***************************************************************************)
(* Comparisons on dotted paths.                                            *)
(***************************************************************************)
\* the most segments of a dotted path
MaxSegments == 3

Segments == {"address", "city"}

RECURSIVE dotted(_)
dotted(path) ==
    IF Len(path) <= 1 THEN path ELSE <<Head(path), ".">> \o dotted(Tail(path))

DottedPaths == UNION {[1..n -> Segments] : n \in 2..MaxSegments}

OperateJobs ==
    UNION {{[op |-> "operate", stage |-> "input", node |-> FilterNode(kind, dotted(path)),
             path |-> path, kwargs |-> kwargs] :
               kind \in DOMAIN Operators,
               kwargs \in {<<>>} \cup {[k \in {join(path)} |-> Int1]}} :
           path \in DottedPaths}

\* the visit registered for a comparison node: _operate(node, schema, op, **kwargs)
visit_comparison ==
    /\ job.op = "operate" /\ job.stage = "input"
    /\ job' = [job EXCEPT !.stage = "done"] @@
              [out |-> operate(job.node, Operators[job.node.kind], job.kwargs)]
    /\ UNCHANGED uowVars

(***************************************************************************)
(* Loader (winter/utils/loaders.py).  A directory is the sequence of its   *)
(* entries in the order iterdir yields them; a file carries whether its    *)
(* name ends in .py and what importing it does.                            *)
(***************************************************************************)
\* the most entries of a directory
MaxEntries == 2

\* what importlib.import_module does with a module
Imports == {"ok", "ModuleNotFoundError", "ImportError", "SyntaxError"}

File(py, import) == [is_dir |-> FALSE, py |-> py, import |-> import]
Dir(entries) == [is_dir |-> TRUE, entries |-> entries]

Files == {File(TRUE, i) : i \in Imports} \cup {File(FALSE, "ok")}

SubDirs == {Dir(<<>>)} \cup {Dir(<<f>>) : f \in Files}

Roots == UNION {[1..n -> Files \cup SubDirs] : n \in 0..MaxEntries}

\* the for loop over module.iterdir(): directories are queued, .py files are
\* imported, and only ModuleNotFoundError is caught
RECURSIVE iterdir(_, _, _)
iterdir(entries, dirs, attempted) ==
    IF entries = <<>>
    THEN [ok |-> TRUE, error |-> "none", message |-> <<>>, dirs |-> dirs,
          attempted |-> attempted]
    ELSE LET sub_module == Head(entries)
         IN  IF sub_module.is_dir
             THEN iterdir(Tail(entries), Append(dirs, sub_module.entries), attempted)
             ELSE IF ~sub_module.py THEN iterdir(Tail(entries), dirs, attempted)
             ELSE IF sub_module.import = "ok"
             THEN iterdir(Tail(entries), dirs, Append(attempted, sub_module.import))
             ELSE [ok |-> FALSE,
                   error |-> IF sub_module.import = "ModuleNotFoundError"
                             THEN "LoaderError" ELSE sub_module.import,
                   message |-> <<sub_module.import>>, dirs |-> dirs,
                   attempted |-> Append(attempted, sub_module.import)]

\* while dirs: module = dirs.pop(0) ...
RECURSIVE walk(_, _)
walk(dirs, attempted) ==
    IF dirs = <<>>
    THEN [ok |-> TRUE, error |-> "none", message |-> <<>>, attempted |-> attempted]
    ELSE LET step == iterdir(Head(dirs), Tail(dirs), attempted)
         IN  IF ~step.ok
             THEN [ok |-> FALSE, error |-> step.error, message |-> step.message,
                   attempted |-> step.attempted]
             ELSE walk(step.dirs, step.attempted)

\* autodiscover_modules(settings)
autodiscover_modules(is_dir, app_root) ==
    IF ~is_dir
    THEN [ok |-> FALSE, error |-> "LoaderError",
          message |-> <<"settings.app_root is not a dir">>, attempted |-> <<>>]
    ELSE walk(<<app_root>>, <<>>)

LoaderJobs ==
    {[op |-> "autodiscover", stage |-> "input", is_dir |-> d, app_root |-> r] :
        d \in BOOLEAN, r \in Roots}

autodiscover ==
    /\ job.op = "autodiscover" /\ job.stage = "input"
    /\ job' = [job EXCEPT !.stage = "done"] @@
              [out |-> autodiscover_modules(job.is_dir, job.app_root)]
    /\ UNCHANGED uowVars

(***************************************************************************)
(* From a method name to the relational driver: the name is parsed and the *)
(* Find it gives is compiled and executed with an argument for its field.  *)
(***************************************************************************)
\* the operators as TOKEN_MATCHER writes them
OperatorLexemes ==
    {<<"E", "q", "u", "a", "l", "T", "o">>,
     <<"N", "o", "t", "E", "q", "u", "a", "l", "T", "o">>,
     <<"L", "o", "w", "e", "r", "T", "h", "a", "n">>,
     <<"N", "o", "t", "L", "o", "w", "e", "r", "T", "h", "a", "n">>,
     <<"I", "n">>,
     <<"N", "o", "t", "I", "n">>,
     <<"G", "r", "e", "a", "t", "e", "r", "T", "h", "a", "n">>,
     <<"N", "o", "t", "G", "r", "e", "a", "t", "e", "r", "T", "h", "a", "n">>}

CompiledFields == {<<"n", "a", "m", "e">>, <<"a", "g", "e">>}

\* find_by_<field>, or find_by_<field>_<operator> with the operator as
\* written or in lower case
CompileNames ==
    {<<"f", "i", "n", "d", "_", "b", "y", "_">> \o f : f \in CompiledFields}
    \cup {<<"f", "i", "n", "d", "_", "b", "y", "_">> \o f \o <<"_">> \o o : f \in CompiledFields, o \in OperatorLexemes}
    \cup {<<"f", "i", "n", "d", "_", "b", "y", "_">> \o f \o <<"_">> \o Lowered(o) :
             f \in CompiledFields, o \in OperatorLexemes}

CompileJobs ==
    {[op |-> "compile", stage |-> "input", arg |-> n, supplied |-> v] :
        n \in CompileNames, v \in BOOLEAN}

\* the keyword arguments of the call: a value for every field of the filters
RECURSIVE arguments_for(_)
arguments_for(node) ==
    IF node = None THEN <<>>
    ELSE IF node.kind \in {"AndNode", "OrNode"}
    THEN arguments_for(node.left) @@ arguments_for(node.right)
    ELSE [k \in {node.field} |-> Int1]

\* the driver's run of a parsed name, or the parser's error
compile_parsed(parsed, kwargs) ==
    [parsed |-> parsed,
     out |-> IF parsed.ok THEN visit_Find(parsed.node, kwargs, NoSession)
             ELSE Outcome(Raised(parsed.error, <<>>), 0, <<>>)]

compile_supplied(parsed, supplied) ==
    compile_parsed(parsed, IF parsed.ok /\ supplied
                           THEN arguments_for(parsed.node.filters) ELSE <<>>)

\* repo.<name>(**kwargs): the parsed name is run by the driver
compile_name ==
    /\ job.op = "compile" /\ job.stage = "input"
    /\ job' = [job EXCEPT !.stage = "done"] @@
              compile_supplied(parse(job.arg), job.supplied)
    /\ UNCHANGED uowVars

(***************************************************************************)
(* Update called twice with one entity object.                             *)
(***************************************************************************)
\* the entity object as visit and query for Update leave it: a dict with an
\* id loses its id key (entity.pop("id", None)), a record is only read
entity_after_update(entity) ==
    IF get(entity.fields, "id") # None /\ entity.kind = "dict"
    THEN [entity EXCEPT !.fields = [k \in DOMAIN entity.fields \ {"id"} |-> entity.fields[k]]]
    ELSE entity

\* SqlAlchemyDriver.query for Update: the statement of visit, returned as text
\* and not executed
query_Update(entity) ==
    LET visited == visit_Update(entity, NoSession)
    IN  IF ~visited.ok THEN visited
        ELSE [visited EXCEPT !.value = visited.executed[1].stmt, !.executed = <<>>]

\* driver.run_async(Update(), schema, entity=entity), or get_query_repr when dry
run_update(entity, dry, driver_session) ==
    IF dry THEN query_Update(entity) ELSE visit_Update(entity, driver_session)

UpdateTwiceJobs ==
    {[op |-> "update_twice", stage |-> "input", entity |-> e, dry |-> d,
      driver_session |-> s] :
        e \in Entities, d \in BOOLEAN, s \in DriverSessions}

\* two updates with the same entity object, one after the other
update_twice ==
    /\ job.op = "update_twice" /\ job.stage = "input"
    /\ LET after_first == entity_after_update(job.entity)
       IN  job' = [job EXCEPT !.stage = "done"] @@
                  [first |-> run_update(job.entity, job.dry, job.driver_session),
                   second |-> run_update(after_first, job.dry, job.driver_session),
                   entity_after |-> entity_after_update(after_first)]
    /\ UNCHANGED uowVars

(***************************************************************************)
(* Repository calls that reach the relational driver: the intercepted      *)
(* method hands the session of the scope on as a keyword argument.         *)
(***************************************************************************)
\* wrapper: new_attr(*args, session=session, **kwargs)
session_keyword(kwargs, scope) ==
    [k \in DOMAIN kwargs \cup {<<"session">>} |->
        IF k = <<"session">>
        THEN IF scope = NoSession THEN None ELSE [kind |-> "session", id |-> scope]
        ELSE kwargs[k]]

\* SqlAlchemyDriver.init: self._session = None, assigned nowhere else
init_session == NoSession

\* Backend.run_async handing the keywords to SqlAlchemyDriver.run_async, which
\* calls visit(query_expression, table_name, **kwargs); the visit registered
\* for Create takes the keyword entity and no other
run_async(node, kwargs, entity) ==
    IF node.kind = "Find" THEN visit_Find(node, kwargs, init_session)
    ELSE IF DOMAIN kwargs # {}
         THEN Outcome(Raised("TypeError", <<"unexpected keyword argument">>), 0, <<>>)
         ELSE visit_Create(entity, init_session)

NoEntity == [kind |-> "dict", fields |-> <<>>]

RepositoryCallJobs ==
    {[op |-> "repository_call", stage |-> "input", node |-> RootNode("Find", filters),
      kwargs |-> kwargs, entity |-> NoEntity, scope |-> s] :
        filters \in {None} \cup FilterTrees(1), kwargs \in Kwargs, s \in DriverSessions}
    \cup
    {[op |-> "repository_call", stage |-> "input", node |-> RootNode("Create", None),
      kwargs |-> <<>>, entity |-> e, scope |-> s] :
        e \in Entities, s \in DriverSessions}

\* a call of an intercepted method of a repository bound to the relational
\* backend, inside the scope of a unit of work (scope is its session) or
\* outside any
repository_call ==
    /\ job.op = "repository_call" /\ job.stage = "input"
    /\ job' = [job EXCEPT !.stage = "done"] @@
              [out |-> run_async(job.node, session_keyword(job.kwargs, job.scope),
                                 job.entity)]
    /\ UNCHANGED uowVars

(***************************************************************************)
(* SpecCalls: operations applied on their own, one per behaviour, while    *)
(* no unit of work is in use.                                              *)
(***************************************************************************)
CallJobs == ConstructJobs \cup TokenizeJobs \cup ParseJobs \cup FindJobs \cup EntityJobs
            \cup MethodJobs \cup MongoFlushJobs \cup TrackerFlushJobs
            \cup ProxyJobs \cup RepositoryCallJobs \cup DeleteJobs
            \cup OperateJobs \cup LoaderJobs \cup CompileJobs
            \cup UpdateTwiceJobs

InitCalls ==
    /\ repositories = [u \in UoWs |-> <<>>]
    /\ InitUoW
    /\ job \in CallJobs

NextCalls ==
    \/ construct
    \/ tokenize_name
    \/ parse_name
    \/ driver_find
    \/ driver_update
    \/ driver_create
    \/ call_method
    \/ flush_mongo_tracker
    \/ flush_tracker
    \/ proxy_result \/ repository_call \/ driver_delete
    \/ visit_comparison \/ autodiscover \/ compile_name
    \/ update_twice

SpecCalls == InitCalls /\ [][NextCalls]_vars

Parsed == job.op = "parse" /\ job.stage = "done"

Tokenized == job.op = "tokenize" /\ job.stage = "done"

\* the node class each written keyword stands for
NodeOf(keyword) ==
    CASE keyword = <<"f", "i", "n", "d">> -> "Find"
      [] keyword = <<"g", "e", "t">> -> "Get"
      [] keyword = <<"d", "e", "l", "e", "t", "e">> -> "Delete"
      [] keyword = <<"a", "n", "d">> -> "AndNode"
      [] keyword = <<"o", "r">> -> "OrNode"
      [] keyword = <<>> -> "EqualToNode"
      [] keyword = <<"G", "r", "e", "a", "t", "e", "r", "T", "h", "a", "n">> -> "GreaterThanNode"
      [] keyword = <<"I", "n">> -> "InNode"

\* the right-nested tree c1(crit1, c2(crit2, ... And(critn, None)))
RECURSIVE ExpectedFilters(_, _)
ExpectedFilters(b, k) ==
    LET crit == FilterNode(NodeOf(b.operators[k]), b.fields[k])
    IN  IF k = Len(b.fields) THEN BinaryNode("AndNode", crit, None)
        ELSE BinaryNode(NodeOf(b.combinators[k]), crit, ExpectedFilters(b, k + 1))

ExpectedRoot(b) ==
    RootNode(NodeOf(b.target),
             IF b.fields = <<>> THEN None ELSE ExpectedFilters(b, 1))

\* C12: parsing a name built from a find/get/delete target, field names,
\* operators and and/or combinators joined by underscores returns the target's
\* root node over the right-nested filter tree with the field names unchanged,
\* and a root with filters None when no filter was written
C12_BuiltNameRoundTrip ==
    (Parsed /\ job.built.kind = "built" /\ job.built.glue = <<"_">>) =>
        /\ job.out.ok
        /\ job.out.node = ExpectedRoot(job.built)

\* the criteria of a filter tree, left to right
RECURSIVE Criteria(_)
Criteria(filters) ==
    IF filters = None THEN <<>> ELSE <<filters.left>> \o Criteria(filters.right)

\* C13: in a parsed name a field name immediately followed by an operator
\* keyword (<field>GreaterThan) becomes that operator's node carrying <field>,
\* and a field name with no operator keyword becomes the EqualTo node on it
C13_GluedOperator ==
    (Parsed /\ job.built.kind = "built" /\ job.built.glue = <<>>) =>
        /\ job.out.ok
        /\ Criteria(job.out.node.filters) =
              [k \in DOMAIN job.built.fields |->
                  FilterNode(NodeOf(job.built.operators[k]), job.built.fields[k])]

\* the positions of a name holding a character that none of the given
\* characters nor a letter accounts for
Unmatched(name, accepted) ==
    {k \in DOMAIN name : ~IsLetter(name[k]) /\ name[k] \notin accepted}

First(positions) == CHOOSE k \in positions : \A j \in positions : k <= j

\* tokenize raises UnknownTokenError exactly when the name holds a character
\* that is neither a letter nor one of the accepted characters; the error
\* carries the name from the first such character on and no tokens are returned
RaisesExactlyOn(accepted) ==
    LET bad == Unmatched(job.arg, accepted)
    IN  /\ job.out.ok <=> bad = {}
        /\ job.out.ok => job.out.error = "none" /\ job.out.tokens # <<>>
        /\ ~job.out.ok =>
              /\ job.out.error = "UnknownTokenError"
              /\ job.out.tokens = <<>>
              /\ job.out.rest = SubSeq(job.arg, First(bad), Len(job.arg))

\* what the tokenizer does: a $ written in the name matches the pattern of the
\* end sentinel, so UnknownTokenError is raised exactly for a character that is
\* none of a letter, the underscore and $
tokenize_raises == Tokenized => RaisesExactlyOn({"_", "$"})

\* C14: tokenize raises UnknownTokenError exactly when at some scan position
\* the remaining input starts with a symbol that is none of the underscore, a
\* keyword or an alphabetic field name; the error carries the unconsumed
\* remainder and no token list is returned
C14_UnknownToken == Tokenized => RaisesExactlyOn({"_"})

\* the token types of a name as the tokenizer returns them, without the end
\* sentinel it appends
TypesOf(name) ==
    LET tokens == tokenize(name).tokens
    IN  [k \in 1..(Len(tokens) - 1) |-> tokens[k].token_type]

\* <criteria>(<logical_operator><criteria>)* where a criteria is a field name
\* and, optionally, an operator
RECURSIVE IsFilters(_)
IsFilters(types) ==
    /\ types # <<>>
    /\ Head(types) = "fieldName"
    /\ LET after == IF Len(types) >= 2 /\ types[2] = "operator"
                    THEN SubSeq(types, 3, Len(types)) ELSE Tail(types)
       IN  \/ after = <<>>
           \/ /\ Head(after) = "logical_operator"
              /\ IsFilters(Tail(after))

\* <query_target>[By<criteria>(<logical_operator><criteria>)*]
InGrammar(types) ==
    /\ types # <<>>
    /\ Head(types) = "query_target"
    /\ \/ Len(types) = 1
       \/ /\ Len(types) >= 2
          /\ types[2] = "by"
          /\ IsFilters(SubSeq(types, 3, Len(types)))

\* C15: parsing a name that tokenizes but does not match the grammar
\* <query_target>[By<criteria>(<logical_operator><criteria>)*] fails with
\* ParsingError: no AST is returned and no other error raised, and a parse
\* that succeeds has consumed every token
C15_MalformedFails ==
    (Parsed /\ tokenize(job.arg).ok) =>
        /\ ~InGrammar(TypesOf(job.arg)) =>
              ~job.out.ok /\ job.out.error = "ParsingError" /\ job.out.node = None
        /\ job.out.ok => job.out.tokens = <<>>

(***************************************************************************)
(* Properties of the relational driver (under SpecCalls).                  *)
(***************************************************************************)
\* the keyword a field is looked up with: its name with __ for every dot
KeyOf(field) == [k \in DOMAIN field |-> IF field[k] = "." THEN "__" ELSE field[k]]

Supplied(field, kwargs) == KeyOf(field) \in DOMAIN kwargs /\ kwargs[KeyOf(field)] # None

\* the k-th criterion of the filters is reached: it has a compilation rule and
\* every criterion before it compiled to a where clause
Compiles(crits, k, kwargs) ==
    /\ crits[k].kind \in DOMAIN Operators
    /\ \A j \in 1..(k - 1) :
          /\ crits[j].kind \in DOMAIN Operators
          /\ "." \notin Range(crits[j].field)
          /\ Supplied(crits[j].field, kwargs)

\* C16: when the driver compiles a comparison node for field f and the keyword
\* arguments do not contain f (the __-joined name for a dotted path), the call
\* fails with ExecutionError whose message names that field, and no statement
\* is executed
C16_MissingArgument ==
    (job.op = "find" /\ job.stage = "done") =>
        LET crits == Criteria(job.node.filters)
        IN  \A k \in DOMAIN crits :
               (Compiles(crits, k, job.kwargs) /\ KeyOf(crits[k].field) \notin DOMAIN job.kwargs) =>
                   /\ ~job.out.ok
                   /\ job.out.error = "ExecutionError"
                   /\ job.out.message[1] = KeyOf(crits[k].field)
                   /\ job.out.executed = <<>>

\* the second criterion is on a dotted path whose __-joined name is missing
\* while the dotted name itself was passed, and the first criterion compiled
C16_Witness ==
    /\ job.op = "find" /\ job.stage = "done"
    /\ LET crits == Criteria(job.node.filters)
       IN  /\ Len(crits) = 2
           /\ Compiles(crits, 2, job.kwargs)
           /\ crits[2].field = <<"address", ".", "city">>
           /\ <<"address", "__", "city">> \notin DOMAIN job.kwargs
           /\ <<"address", ".", "city">> \in DOMAIN job.kwargs
           /\ job.out.error = "ExecutionError"
           /\ job.out.message[1] = <<"address", "__", "city">>

\* the entity's id is absent: missing or None
IdAbsent(entity) == "id" \notin DOMAIN entity.fields \/ entity.fields["id"] = None

\* C17: an update with an entity whose id is absent (None or missing) fails
\* with ExecutionError before any statement is built or executed; with an id,
\* exactly one UPDATE filtered by that id is issued
C17_UpdateRequiresId ==
    (job.op = "update" /\ job.stage = "done") =>
        IF IdAbsent(job.entity)
        THEN /\ ~job.out.ok /\ job.out.error = "ExecutionError"
             /\ job.out.built = 0 /\ job.out.executed = <<>>
        ELSE /\ job.out.ok
             /\ Len(job.out.executed) = 1
             /\ job.out.executed[1].stmt.kind = "update"
             /\ job.out.executed[1].stmt.filter_by = job.entity.fields["id"]

\* an update whose entity carries id None and a name was refused
C17_Witness ==
    /\ job.op = "update" /\ job.stage = "done"
    /\ DOMAIN job.entity.fields = {"id", "name"}
    /\ job.entity.fields["id"] = None
    /\ job.out.error = "ExecutionError"

\* C18: a create with an entity that lacks an identity value fails with
\* ExecutionError, and no INSERT is issued
C18_CreateRequiresId ==
    (job.op = "create" /\ job.stage = "done" /\ IdAbsent(job.entity)) =>
        /\ ~job.out.ok /\ job.out.error = "ExecutionError"
        /\ job.out.executed = <<>>

(***************************************************************************)
(* Properties of method lookup (under SpecCalls).                          *)
(***************************************************************************)
Called == job.op = "call" /\ job.stage = "done"

\* C19: a method marked raw, synchronous or asynchronous, runs its written
\* body with exactly the caller's arguments (no session added) and hands its
\* result back unchanged: no query is compiled and the result is not proxied
C19_RawBypasses ==
    (Called /\ job.method.raw /\ job.method.name # "__init__") =>
        /\ job.out.ok
        /\ job.out.body /\ ~job.out.compiled
        /\ job.out.received = job.kwargs
        /\ ~job.out.proxied

\* C20: a method that is not raw, on a repository whose backend name is not
\* registered, fails with RepositoryError; the original body never serves it
C20_UnregisteredBackendFails ==
    (Called /\ ~job.method.raw /\ job.method.name # "__init__" /\ ~job.decl.registered) =>
        /\ ~job.out.ok
        /\ job.out.error = "RepositoryError"
        /\ ~job.out.body

(***************************************************************************)
(* SpecCache: method lookups on repository instances of one class, through *)
(* the lru_cache of _parse_function_name.  The job holds the cache and how *)
(* often each method name was compiled.                                    *)
(***************************************************************************)
\* the most lookups of a behaviour
MaxLookups == 5

Instances == {"repo1", "repo2", "repo3"}

MethodNames == {"get_by_id", "find_by_name"}

\* the key lru_cache(typed=True) builds from the arguments (backend, fname,
\* fobject, target, dry): fobject is the bound method that
\* super().__getattribute__ returned, equal only to a bound method of the same
\* instance and function; the other arguments are the same for one class
cache_key(instance, fname) == <<"default", fname, <<instance, fname>>, "User", FALSE>>

\* the key of this call is in the cache
cached(cache, instance, fname) == cache_key(instance, fname) \in cache

InitCache ==
    /\ repositories = [u \in UoWs |-> <<>>]
    /\ InitUoW
    /\ job = [op |-> "lookups", cache |-> {}, compiled |-> [n \in MethodNames |-> 0],
              lookups |-> 0, hit |-> FALSE]

\* repo.<fname>: _getattribute calls _parse_function_name, which on a miss has
\* the backend compile the name and stores the result under the call's key
lookup(instance, fname) ==
    /\ job.lookups < MaxLookups
    /\ job' = IF cached(job.cache, instance, fname)
              THEN [job EXCEPT !.lookups = @ + 1, !.hit = TRUE]
              ELSE [job EXCEPT !.lookups = @ + 1, !.hit = FALSE,
                               !.cache = @ \cup {cache_key(instance, fname)},
                               !.compiled[fname] = @ + 1]
    /\ UNCHANGED uowVars

NextCache == \E instance \in Instances, fname \in MethodNames : lookup(instance, fname)

SpecCache == InitCache /\ [][NextCache]_vars

\* C21: over any sequence of lookups, on any number of repository instances
\* and method names, a method name is compiled exactly once: every later
\* lookup of the name is served from the cache
C21_CompiledOncePerName ==
    job.op = "lookups" => \A n \in MethodNames : job.compiled[n] <= 1

(***************************************************************************)
(* Properties of the tracker's flush (under SpecCalls).                    *)
(***************************************************************************)
Flushed == job.op = "flush" /\ job.stage = "done"

\* the dirty records of the tracker that was flushed
DirtyRoots ==
    IF job.tracker = "MongoSessionTracker" THEN Range(job.modified)
    ELSE {job.identity_map[k] : k \in job.modified_keys \cap DOMAIN job.identity_map}

\* the updates issued for a record: filtered by its identity, carrying its data
UpdatesFor(record) ==
    {k \in DOMAIN job.out.calls :
        /\ job.out.calls[k].filter = [id |-> record.id]
        /\ job.out.calls[k].set.name = record.name}

\* C22: a flush that returns has issued, for each root of the dirty set,
\* exactly one $set update filtered by the root's identity and carrying the
\* supplied session, none for a record that is not dirty, and has left the
\* dirty set empty
C22_FlushOneUpdatePerRoot ==
    (Flushed /\ job.out.ok) =>
        /\ \A root \in DirtyRoots : Cardinality(UpdatesFor(root)) = 1
        /\ \A k \in DOMAIN job.out.calls :
              /\ job.out.calls[k].session = job.with_session
              /\ \E root \in DirtyRoots : k \in UpdatesFor(root)
        /\ IF job.tracker = "MongoSessionTracker" THEN job.out.modified = <<>>
           ELSE job.out.modified_keys = {}

\* C23: when a dirty record has no identity value at flush time the flush
\* fails with TrackerError: the record is not skipped and no update is issued
\* for it
C23_NoIdentityRaises ==
    (Flushed /\ \E root \in DirtyRoots : root.id = NoId) =>
        /\ ~job.out.ok
        /\ job.out.error = "TrackerError"
        /\ \A root \in DirtyRoots : root.id = NoId => UpdatesFor(root) = {}

\* the same on the identity-map Tracker whose dirty keys all have a live record
TrackerRaisesWithoutIdentity ==
    (Flushed /\ job.tracker = "Tracker" /\ job.modified_keys \subseteq DOMAIN job.identity_map
            /\ NoId \in job.modified_keys) =>
        ~job.out.ok /\ job.out.error = "TrackerError"

\* a flush over records that all have an identity
FlushOfIdentified ==
    (Flushed /\ job.out.ok /\ \A root \in DirtyRoots : root.id # NoId) =>
        C22_FlushOneUpdatePerRoot

(***************************************************************************)
(* Properties of the proxy layer (under SpecCalls).                        *)
(***************************************************************************)
\* the record and everything nested in it is wrapped under the given root by
\* the given tracker: in session, not modified
WrappedUnder(record, root, tracker) ==
    /\ \A l \in {0} \cup Levels : StampAt(record, l) = [target |-> root, in_session |-> TRUE,
                                                       tracker |-> tracker, modified |-> FALSE]
    /\ record.list.proxy
    /\ record.list.instance = root
    /\ record.list.tracker = tracker
    /\ ~record.list.regs

\* C24: a result passed through proxyfied has every record wrapped with its
\* tracking root, the owning tracker, the in-session flag set and the modified
\* flag false; a single record, its nested records and its nested list are
\* rooted at that record, each element of a list result and everything nested
\* in it at that element, and an absent result comes back unchanged
C24_ProxyRoots ==
    (job.op = "proxy" /\ job.stage = "done" /\ mongo_session_managed(job.repo)) =>
        /\ job.out.kind = job.result.kind
        /\ job.result.kind = "None" => job.out = job.result
        /\ job.result.kind = "record" =>
              WrappedUnder(job.out.record, job.out.ref, job.repo)
        /\ job.result.kind = "list" =>
              /\ DOMAIN job.out.items = DOMAIN job.result.items
              /\ \A k \in DOMAIN job.out.items :
                    /\ job.out.items[k].ref = k
                    /\ WrappedUnder(job.out.items[k].record, k, job.repo)

\* a list of two records came back, the second rooted at itself
C24_Witness ==
    /\ job.op = "proxy" /\ job.stage = "done" /\ mongo_session_managed(job.repo)
    /\ job.result.kind = "list" /\ Len(job.result.items) = 2
    /\ job.out.items[2].record.address[2].stamp.target = 2
    /\ job.out.items[2].record.list.instance = 2

(***************************************************************************)
(* Relational driver inside and outside a scope.                           *)
(***************************************************************************)
CalledOnRepository == job.op = "repository_call" /\ job.stage = "done"

\* C25: a repository call made inside the scope of a unit of work executes
\* its statement on the session of the scope, and only a call made outside
\* any scope executes on a private session.
C25_ExecutesOnScopeSession ==
    CalledOnRepository =>
        \A i \in DOMAIN job.out.executed :
            job.out.executed[i].session = "supplied" <=> job.scope # NoSession

\* a call made outside any scope that executes does so on a private session
PrivateSessionOutsideScope ==
    CalledOnRepository /\ job.scope = NoSession =>
        \A i \in DOMAIN job.out.executed : job.out.executed[i].session = "private"

(***************************************************************************)
(* Delete with filters.                                                    *)
(***************************************************************************)
Deleted == job.op = "delete" /\ job.stage = "done"

\* what Find compiles and executes for the filters of the job
FindOfFilters == visit_Find(RootNode("Find", job.node.filters), job.kwargs, job.driver_session)

\* C26: a Delete with filters ends by issuing exactly one DELETE whose
\* where-clause is what the same filters compile to for Find.
C26_DeleteAppliesFilters ==
    Deleted /\ job.node.filters # None /\ FindOfFilters.ok =>
        /\ job.out.ok
        /\ Len(job.out.executed) = 1
        /\ job.out.executed[1].stmt =
               [kind |-> "delete", state |-> FindOfFilters.executed[1].stmt.state]

\* a Delete without filters issues one DELETE with no where-clause
DeleteWithoutFilters ==
    Deleted /\ job.node.filters = None =>
        /\ job.out.ok
        /\ Len(job.out.executed) = 1
        /\ job.out.executed[1].stmt = [kind |-> "delete", state |-> None]

\* a Delete with filters ends in RecursionError and issues nothing
DeleteWithFiltersRecurses ==
    Deleted /\ job.node.filters # None =>
        ~job.out.ok /\ job.out.error = "RecursionError" /\ job.out.executed = <<>>

(***************************************************************************)
(* Comparisons on dotted paths.                                            *)
(***************************************************************************)
Operated == job.op = "operate" /\ job.stage = "done"

\* C27: a comparison on a dotted path of two or more segments whose argument
\* is supplied returns a state whose joins are the related types of all the
\* segments but the last, in order, and whose where applies the operator to
\* the attribute the last segment names.
C27_DottedPathJoins ==
    Operated /\ Len(job.path) >= 2 /\ get(job.kwargs, join(job.path)) # None =>
        /\ job.out.ok
        /\ job.out.value.joins = SubSeq(job.path, 1, Len(job.path) - 1)
        /\ job.out.value.where =
               [op |-> Operators[job.node.kind], column |-> job.path[Len(job.path)],
                value |-> Int1]

\* a comparison on a dotted path returns no state, whatever the path
DottedPathRaises ==
    Operated =>
        /\ ~job.out.ok
        /\ job.out.error \in {"ExecutionError", "StopIteration"}

\* both ways out of the loop happen
DottedPathFallsOut ==
    Operated /\ job.out.message = <<"WTF This should not end here">>

DottedPathStops == Operated /\ job.out.error = "StopIteration"

(***************************************************************************)
(* Loader errors.                                                          *)
(***************************************************************************)
Discovered == job.op = "autodiscover" /\ job.stage = "done"

\* C28: autodiscover_modules fails with LoaderError, importing nothing, when
\* app_root is not a directory, and fails with LoaderError carrying the
\* underlying message when the import of a discovered module fails, whatever
\* the failure: no other kind of error escapes.
C28_OnlyLoaderError ==
    Discovered =>
        /\ ~job.is_dir => ~job.out.ok /\ job.out.attempted = <<>>
        /\ ~job.out.ok => job.out.error = "LoaderError"

\* the half about app_root
NotADirectoryFails ==
    Discovered /\ ~job.is_dir =>
        ~job.out.ok /\ job.out.error = "LoaderError" /\ job.out.attempted = <<>>

\* a module that is not found is reported as LoaderError with its message
ModuleNotFoundIsLoaderError ==
    Discovered /\ job.is_dir /\ ~job.out.ok /\ job.out.message = <<"ModuleNotFoundError">> =>
        job.out.error = "LoaderError"

(***************************************************************************)
(* Sessions over any sequence of enter and exit steps (under SpecNested).  *)
(***************************************************************************)
\* an open session is the one its unit of work holds, so that the exit of
\* the scope rolls it back and closes it
OpenSessionsHeld ==
    \A s \in DOMAIN sessions : sessions[s].open => session[owner[s]] = s

\* C29: over any sequence of enter and exit steps, every session acquired is
\* in the end rolled back and closed exactly once (an open session is never
\* let go of by its unit of work), and close_session is never called with an
\* absent session.
C29_SessionsClosedOnce ==
    /\ OpenSessionsHeld
    /\ last.op = "exit" => last.s # NoSession

\* the session overwritten by the inner enter stays open after both exits
LeakedSession ==
    /\ \A u \in UoWs : pc[u] = "idle" /\ session[u] = NoSession
    /\ \E s \in DOMAIN sessions : sessions[s].open

\* the outer exit calls close_session with no session
ClosedAbsentSession == last.op = "exit" /\ last.s = NoSession

(***************************************************************************)
(* Mutations after a first commit (under SpecTrack).                       *)
(***************************************************************************)
\* the step appends to or removes from the tracked list of record h, inside
\* the scope the record was obtained in
MutatesList(h) ==
    /\ last'.op \in {"append", "remove"}
    /\ heap'[h].heroes # heap[h].heroes
    /\ heap[h].list.proxy
    /\ \E u \in UoWs : pc[u] = "active" /\ heap[h].scope = session[u]

\* the root of record h was registered by a mutation of the list and then
\* flushed by a commit of the scope, which still runs
FlushedOnce(h) ==
    /\ heap[h].list.regs
    /\ \A k \in DOMAIN modified[heap[h].list.tracker] :
          modified[heap[h].list.tracker][k] # heap[h].list.instance
    /\ \E u \in UoWs : /\ pc[u] = "active" /\ heap[h].scope = session[u]
                       /\ flags[u].commitCalled /\ ~flags[u].commitFailed

\* the root of record h is in the dirty list of its tracker after the step
DirtyAfter(h) ==
    \E k \in DOMAIN modified'[heap[h].list.tracker] :
        modified'[heap[h].list.tracker][k] = heap[h].list.instance

\* C30: within one scope, an append or remove on the tracked list of a root
\* that a first commit() already flushed marks the root dirty again, so that
\* a second commit() flushes it.
C30_DirtyAgainAfterCommit ==
    [][\A h \in DOMAIN heap : MutatesList(h) /\ FlushedOnce(h) => DirtyAfter(h)]_vars

\* the first mutation of a list in a scope leaves its root, or a record
\* equal to it field by field, in the dirty list
FirstMutationMarksDirty ==
    [][\A h \in DOMAIN heap :
          (/\ MutatesList(h)
           /\ ~heap[h].list.regs
           /\ ~heap[heap[h].list.instance].stamp.modified) =>
              Contains(modified'[heap[h].list.tracker], heap, heap[h].list.instance)]_vars

(***************************************************************************)
(* SpecTracker: the identity-map Tracker (wintry/sessions.py) over records *)
(* the client obtains, holds and lets go of.  A record is known by its     *)
(* reference; two records may carry the same identity.  The state is kept  *)
(* in job: the records still referenced outside the tracker, the weak      *)
(* identity map (Gone where a key has no entry), the dirty keys and the    *)
(* outcome of the last flush.                                              *)
(***************************************************************************)
Refs == {"a", "b", "c"}

\* the identity value of each record: a and b are two records of one document
IdOf == [a |-> 1, b |-> 1, c |-> 2]

RecordOf(ref) == [id |-> IdOf[ref], name |-> 0]

Gone == "gone"

NoFlush == [ok |-> TRUE, error |-> "none", calls |-> <<>>]

InitTracker ==
    /\ repositories = [u \in UoWs |-> <<>>]
    /\ InitUoW
    /\ job = [op |-> "tracker", alive |-> {}, identity_map |-> [k \in DocIds |-> Gone],
              modified_keys |-> {}, out |-> NoFlush, flushes |-> 0]

\* the client obtains a record and holds a reference to it
obtain(ref) ==
    /\ ref \notin job.alive
    /\ job' = [job EXCEPT !.alive = @ \cup {ref}]
    /\ UNCHANGED uowVars

\* Tracker.track(instance): self._identity_map[key] = instance
Tracker_track(ref) ==
    /\ ref \in job.alive
    /\ job' = [job EXCEPT !.identity_map[get_instance_key(RecordOf(ref))] = ref]
    /\ UNCHANGED uowVars

\* Tracker.add(instance) of a record that is its own tracking target: the key
\* joins self._modified; the identity map is not looked at
Tracker_add(ref) ==
    /\ ref \in job.alive
    /\ job' = [job EXCEPT !.modified_keys = @ \cup {get_instance_key(RecordOf(ref))}]
    /\ UNCHANGED uowVars

\* the last outside reference to a record goes: the WeakValueDictionary drops
\* the entry whose value it was
release(ref) ==
    /\ ref \in job.alive
    /\ job' = [job EXCEPT !.alive = @ \ {ref},
                          !.identity_map = [k \in DocIds |-> IF @[k] = ref THEN Gone ELSE @[k]]]
    /\ UNCHANGED uowVars

\* Tracker.clean()
Tracker_clean ==
    /\ job' = [job EXCEPT !.modified_keys = {}, !.identity_map = [k \in DocIds |-> Gone]]
    /\ UNCHANGED uowVars

\* the live entries of the identity map, as Tracker.flush finds them
live_entries(identity_map) ==
    [k \in {d \in DocIds : identity_map[d] # Gone} |-> RecordOf(identity_map[k])]

\* Tracker.flush(session), the dirty keys visited in some order
Tracker_flush ==
    /\ job.flushes < MaxFlushes
    /\ \E keys \in DistinctSeqs(job.modified_keys, Cardinality(job.modified_keys)) :
          LET done == tracker_flush(keys, live_entries(job.identity_map), 1)
          IN  job' = [job EXCEPT !.modified_keys = done.modified_keys,
                                 !.out = [ok |-> done.ok, error |-> done.error,
                                          calls |-> done.calls],
                                 !.flushes = @ + 1]
    /\ UNCHANGED uowVars

NextTracker ==
    \/ \E ref \in Refs : obtain(ref)
    \/ \E ref \in Refs : Tracker_track(ref)
    \/ \E ref \in Refs : Tracker_add(ref)
    \/ \E ref \in Refs : release(ref)
    \/ Tracker_clean
    \/ Tracker_flush

SpecTracker == InitTracker /\ [][NextTracker]_vars

\* C31: after any sequence of track, add, release of a record and clean,
\* every key of the dirty set has a live entry in the identity map, so that
\* flush never fails its assertion that the instance is live.
C31_DirtyKeysLive ==
    job.op = "tracker" =>
        /\ \A k \in job.modified_keys : job.identity_map[k] # Gone
        /\ job.out.error # "AssertionError"

\* a record tracked and made dirty, then let go of, leaves its key dirty with
\* no live entry, and flush fails its assertion
DirtyKeyOfReleased ==
    /\ job.op = "tracker"
    /\ job.alive = {}
    /\ job.modified_keys # {}
    /\ job.out.error = "AssertionError"

\* a flush that finds a live entry for every dirty key issues one update for
\* each and empties the dirty set
FlushOfLiveKeys ==
    [][(/\ job'.flushes = job.flushes + 1
        /\ \A k \in job.modified_keys : job.identity_map[k] # Gone) =>
           /\ job'.out.ok
           /\ Len(job'.out.calls) = Cardinality(job.modified_keys)
           /\ job'.modified_keys = {}]_vars

(***************************************************************************)
(* SpecLookup: one unit of work over two repositories whose intercepted    *)
(* methods the client looks up and calls as two steps: the attribute looked *)
(* up is kept and may be called later, before, inside or after a scope.    *)
(* job keeps, for each repository, the method attribute the client holds   *)
(* with the session its wrapper closed over, and the last call made.       *)
(***************************************************************************)
LookupRepos == {"users", "pets"}

NotHeld == [held |-> FALSE, captured |-> NoSession]

NotCalled == [made |-> FALSE, repo |-> "none", used |-> NoSession, held_then |-> NoSession]

InitLookup ==
    /\ repositories = [u \in UoWs |-> IF u = "u1" THEN <<"users", "pets">> ELSE <<>>]
    /\ InitUoW
    /\ job = [op |-> "lookup", attribute |-> [r \in LookupRepos |-> NotHeld],
              call |-> NotCalled]

\* repo.<name>: _getattribute reads the session the repository holds now and
\* returns a wrapper that closes over it
lookup_attribute(r) ==
    /\ job' = [job EXCEPT !.attribute[r] = [held |-> TRUE, captured |-> repoSession[r]]]
    /\ UNCHANGED uowVars

\* a call of the wrapper held: new_attr(*args, session=session, **kwargs) with
\* the session of the closure
call_attribute_held(r) ==
    /\ job.attribute[r].held
    /\ job' = [job EXCEPT !.call = [made |-> TRUE, repo |-> r,
                                    used |-> job.attribute[r].captured,
                                    held_then |-> repoSession[r]]]
    /\ UNCHANGED uowVars

NextLookup ==
    \/ \E u \in UoWs : aenter(u)
    \/ \E u \in UoWs : aexit(u, FALSE, "ok")
    \/ \E r \in LookupRepos : lookup_attribute(r)
    \/ \E r \in LookupRepos : call_attribute_held(r)

SpecLookup == InitLookup /\ [][NextLookup]_vars

\* C32: an intercepted method runs with the session its repository holds at
\* the moment of the call (the session of the scope inside an active scope,
\* none after the scope is left), whenever its attribute was looked up.
C32_SessionAtCallTime ==
    job.op = "lookup" /\ job.call.made => job.call.used = job.call.held_then

\* a method looked up before the scope and called inside it runs without the
\* session of the scope
CalledInScopeWithoutSession ==
    /\ job.op = "lookup" /\ job.call.made
    /\ job.call.held_then # NoSession /\ job.call.used = NoSession

\* a method looked up inside the scope and called after it runs with the
\* session the scope closed
CalledAfterScopeWithSession ==
    /\ job.op = "lookup" /\ job.call.made
    /\ job.call.held_then = NoSession /\ job.call.used # NoSession

\* a call made at once after the lookup runs with the session held then
CalledAtOnce ==
    [][\A r \in LookupRepos :
          (/\ job.attribute[r].held /\ job.attribute[r].captured = repoSession[r]
           /\ job'.call # job.call /\ job'.call.repo = r) =>
              job'.call.used = repoSession[r]]_vars

(***************************************************************************)
(* Parsed comparisons in the relational driver.                            *)
(***************************************************************************)
CompiledName == job.op = "compile" /\ job.stage = "done"

\* the comparison the parsed name carries
ParsedCriterion == job.parsed.node.filters.left

\* C33: every comparison node the parser produces is compiled by the
\* relational driver into a where-clause state when its argument is
\* supplied; none ends in the NotImplementedError of the unregistered visit.
C33_EveryComparisonCompiles ==
    CompiledName /\ job.parsed.ok /\ job.supplied =>
        /\ job.out.ok
        /\ job.out.error # "NotImplementedError"

\* the comparisons registered with the driver compile to a where-clause on
\* the field with the argument
RegisteredComparisonCompiles ==
    CompiledName /\ job.parsed.ok /\ job.supplied
      /\ ParsedCriterion.kind \in DOMAIN Operators =>
        /\ job.out.ok
        /\ Len(job.out.executed) = 1
        /\ job.out.executed[1].stmt.state.where =
               [op |-> Operators[ParsedCriterion.kind], column |-> ParsedCriterion.field,
                value |-> Int1]

\* every comparison that is not registered ends in NotImplementedError
UnregisteredComparisonFails ==
    CompiledName /\ job.parsed.ok /\ ParsedCriterion.kind \notin DOMAIN Operators =>
        ~job.out.ok /\ job.out.error = "NotImplementedError"

(***************************************************************************)
(* The entity of an update.                                                *)
(***************************************************************************)
UpdatedTwice == job.op = "update_twice" /\ job.stage = "done"

\* C34: an update, executed or dry, leaves the entity passed by the caller
\* as it was, a record and a dict alike: a second update with the same
\* entity object issues the same UPDATE and does not fail for a missing id.
C34_UpdateLeavesEntity ==
    UpdatedTwice /\ job.first.ok =>
        /\ job.entity_after = job.entity
        /\ job.second = job.first

\* a record entity is left as it was and the second update repeats the first
RecordEntityUnchanged ==
    UpdatedTwice /\ job.entity.kind = "BaseModel" =>
        /\ job.entity_after = job.entity
        /\ job.second = job.first

\* a dict entity with an id has lost it after the first update, and the
\* second update fails for the missing id
DictEntityLosesId ==
    UpdatedTwice /\ job.entity.kind = "dict" /\ job.first.ok =>
        /\ "id" \notin DOMAIN job.entity_after.fields
        /\ ~job.second.ok /\ job.second.error = "ExecutionError"
====
